---- MODULE Spec2Model ----
(***************************************************************************)
(* Reconciliation core of the installer: create-if-absent operations       *)
(* (OpenStackController, RancherController), the create-or-replace         *)
(* operation (KubernetesController.createOrUpdateResource), the status     *)
(* pollers and the floating-IP tag identity.                               *)
(*                                                                         *)
(* The remote platforms are the environment: every remote request is one   *)
(* atomic step whose answer is drawn from the answers the platform can     *)
(* give.  The variable `scenario` selects which component a behaviour      *)
(* exercises; the components share no program state (section 3 of the     *)
(* specification: all entities are recomputed from the remote platforms).  *)
(***************************************************************************)
EXTENDS Integers, Sequences, FiniteSets, TLC

VARIABLES
    scenario,   \* component exercised by this behaviour
    \* ---- create-if-absent: networks (Neutron) and clusters (Rancher v1)
    netStore,   \* Neutron networks, in list order: [id, name]
    clStore,    \* provisioning.cattle.io clusters: [id, name, backId]
    eOp,        \* operation in progress: "network" | "cluster" | "none"
    ePc,        \* position inside the operation
    eName,      \* logical name of the descriptor
    eTries,     \* createCluster: iterations of the back-reference loop
    ePosts,     \* create requests issued by the current invocation
    eResult,    \* outcome of the current invocation
    ePrev,      \* outcome of the previous invocation
    eCalls,     \* invocations started
    extCount,   \* objects created by another operator
    eStatus,    \* status field of the object the current invocation returns
    \* ---- floating IPs (Neutron), identified by the tag name:<logical-name>
    fipStore,   \* floating IPs in list order: [id, createdFor, tags]
    extNet,     \* the project has a network named ext-floating1
    fOp,        \* "create" (createFloatingIP) | "get" (getFloatingIP) | "none"
    fPc,        \* position inside the operation
    fName,      \* logical name of the floating IP
    fResult,    \* outcome of the current invocation
    fCalls,     \* invocations started
    tagTasks,   \* addTagsToFloatingIP invocations still running (not awaited)
    \* ---- create-or-replace of one Kubernetes object (name + namespace)
    kExists,    \* the object exists in the cluster
    kRv,        \* its metadata.resourceVersion (the cluster's revision counter)
    uOp,        \* "upsert" (createOrUpdateResource) | "secret" (ensureDBCredentialsSecret)
    uKind,      \* params.kind
    uPc,        \* position inside the operation
    uExists,    \* local `exists`
    uReadRv,    \* version token found in the object read, 0 when it carries none
    uRead,      \* the read of this invocation: "none" | "found" | "notoken" | "absent"
    bodyRv,     \* params.body.metadata.resourceVersion, 0 when unset
    uReq,       \* last mutating request of this invocation: [type, token]
    uReads,     \* read requests issued by this invocation
    uWrites,    \* create and replace requests issued by this invocation
    uResult,    \* outcome of the current invocation
    uPrev,      \* outcome of the previous invocation
    uCalls,     \* invocations started
    kExt,       \* writes by other clients of the cluster
    \* ---- status pollers; time in seconds since the poller was called
    pKind,      \* "server" | "volume" | "lb" | "cluster" | "resource"
    pTarget,    \* targetStatus
    pEnd,       \* endTime - startTime: the timeout
    pInterval,  \* sleep between two fetches
    pPc,        \* "check" | "fetch" | "sleep" | "done"
    now,        \* Date.now() - startTime
    pWake,      \* when the pending fetch answers, or the pending sleep ends
    pResp,      \* answer of the last fetch: a status, "GONE" (404) or "fail"
    pResult,    \* "none" | "ok" | "timeout" | "false" | "error"
    pDoneAt,    \* time at which the poller ended
    pFetchErr,  \* a fetch raised an error other than the awaited not-found
    objStatus,  \* status of the polled object, "GONE" when it does not exist
    trueSince,  \* since when the object satisfies the predicate, -1 if it does not
    everTrue,   \* the object satisfied the predicate at some time before the timeout
    envCount,   \* status changes of the polled object
    \* ---- one installer run: floating IP task, then load balancer task
    rFips,      \* floating IPs of the project: sequence of [tagged, port]
    rLbs,       \* number of load balancers carrying the configured name
    rPc,        \* next remote call of the run, "done", "failed" or "crashed"
    rFipId,     \* floatingIp.id held by the load balancer task, 0 if none
    rTagPc,     \* the un-awaited addTagsToFloatingIP: "none" | "get" | "put" | "reget"
    rTagFip,    \* the floating IP that call is tagging
    crashes,    \* process terminations so far
    \* ---- operations that need the v3 cluster id (the back id)
    bOp,        \* "token" (getRegistrationToken) | "kubeconfig" (getKubeConfig)
    bProvided,  \* the caller passed providedV3ClusterId
    bPopulated, \* status.clusterName of the v1 cluster is populated
    bListed,    \* the v3 cluster appears in GET /clusters
    bPc,        \* position inside the operation
    bV3,        \* v3ClusterId has been determined
    bReads,     \* getCluster reads of the v1 cluster by this invocation
    bBackReqs,  \* requests addressed to the v3 cluster id
    bToken,     \* registrationToken: "none" | "nocmd" | "ready"
    bRetries,   \* getRegistrationToken: iterations of the nodeCommand loop
    bResult,    \* "none" | "ok" | "unavailable" | "nobackid" | "nocmd" | "noconfig"
    bLookupFailed, \* the request listing the existing registration tokens failed
    \* ---- security group with its rules (Neutron)
    sgGroups,   \* number of security groups carrying the configured name
    sgRules,    \* rules of that group in the store
    sgCfg,      \* sgConfig.rules
    sgPc,       \* "idle" | "list" | "post" | "rules" | "done"
    sgPath,     \* "none" | "create" | "existing"
    sgSeen,     \* existingGroup.security_group_rules as listed
    sgIdx,      \* position of the rule loop in sgConfig.rules
    sgGroupPosts, \* securityGroupsPost requests of the current invocation
    sgRulePosts,  \* rules sent with securityGroupRulesPost by the current invocation
    sgSwallowed,  \* rule errors caught and only logged by the current invocation
    sgResult,   \* "none" | "ok" | "unavailable"
    sgCalls,    \* invocations started
    \* ---- create-if-absent of a subnet, a VM, a volume or a load balancer
    xKind,      \* "subnet" | "vm" | "volume" | "lb"
    xCount,     \* objects of that kind carrying the configured name
    xDrift,     \* the attributes of the existing object differ from the configuration
    xPc,        \* position inside the operation
    xHad,       \* such an object existed when the invocation started
    xWrites,    \* create and update requests sent by the current invocation
    xResult,    \* "none" | "existing" | "created" | "unavailable"
    xPending,   \* a request started inside the operation and not awaited is in flight
    xCalls,     \* invocations started
    \* ---- the run driver and the tasks it runs (index.js, tasks/11, tasks/12) ----
    dAdmin,     \* the configuration has a keycloak.admin section
    dPc,        \* "load" | "loop" | "task" | "catch" | "exited"
    dIdx,       \* position in the sorted list of task files
    dStep,      \* position in the running task, 0 when no task is running
    dExit,      \* exit status of the process, -1 while it runs
    dCalls,     \* remote calls the run has started
    dFatal,     \* a remote call of the run failed fatally, or a poller timed out
    dAfter,     \* remote calls started after such a failure
    dLogged,    \* the driver logged 'Installation failed'
    dFetchErrs, \* fetch errors the poller of the running task has met
    dRan,       \* positions of the tasks whose run function was called
    \* ---- the creation calls of the OpenStack tasks, in the order of a run ----
    oLbPos,     \* position of the load balancer task among the sorted task files
    oIdx,       \* position in the task list
    oStep,      \* position in the running task
    oPc,        \* "run" | "failed" | "done"
    oMade,      \* kinds of resource that exist in the project
    oMaxRank,   \* highest rank, in the documented sequence, of a creation call issued
    oUnordered, \* a creation call was issued after one of a higher rank
    oEarly,     \* a creation call was issued while a resource it needs was missing
    oPosts,     \* creation calls issued
    \* ---- the existence check by name of createVM and of the volume lookups ----
    mImpl,      \* "class" | "module" | "volume": which lookup is called
    mStore,     \* names of the servers (or volumes) of the project
    mName,      \* the name asked for
    mPc,        \* "idle" | "list" | "post" | "done"
    mGot,       \* name of the object returned as the existing one, <<>> if none
    mCalls,     \* calls made
    \* ---- createVM with a fixed IP: port, then server ----
    vPorts,     \* ports of the project: sequence of [ip, status, server]
    vServer,    \* the server of the configured name exists
    vPc,        \* "idle" | "servers" | "images" | "flavors" | "ports" | "portPut" | "portPost" | "serverPost" | "wait" | "get" | "done"
    vPort,      \* index of the port handed to the server request, 0 before
    vResult,    \* "none" | "existing" | "created" | "inuse" | "unavailable" | "deleted" | "absent" | "notfound"
    vOrphaned,  \* a call ended with its port created and no server
    vCalls,     \* calls made
    \* ---- createNodes: the nodes of one type, one after the other ----
    nCount,     \* nodeConfig.count
    nI,         \* loop index i, from 0
    nPc,        \* "create" | "wait" | "sleep" | "done" | "failed"
    nNow,       \* seconds since the call
    nWake,      \* time at which the sleep ends
    nPostAt,    \* time of the create request of each node, in loop order
    nActiveAt,  \* time at which each node was observed ACTIVE, in loop order
    \* ---- one client error met by each place that checks for existence ----
    nfErr,      \* the error the Kubernetes client throws: [code, status], 0 = no field
    nfOut,      \* handler -> "none" | "absent" | "rethrown" | "warned"
    \* ---- the parts of the load balancer: listeners, pools, monitors, members ----
    lbStatus,   \* provisioning_status of the load balancer
    lParts,     \* parts that exist in the project
    lIdx,       \* position of the load balancer task in its sequence of parts
    lPc,        \* "taskWait" | "list" | "waitBefore" | "post" | "waitAfter" | "done" | "failed"
    lSeen,      \* status read by the program's last step, "none" if it read none
    lPolls,     \* fetches of the current wait that did not find the target
    lRet,       \* status last read when an operation that posted returned
    lEnv,       \* status changes made by the platform or another client
    \* ---- the storage VM task: initialization VM, then the storage server ----
    tBootCfg,   \* the boot volume carries metadata status = 'configured'
    tInit,      \* the initialization VM: "none" | "active" | "deleting"
    tServer,    \* the storage server exists
    tPc,        \* position of the task
    tIsCfg,     \* bootVolumeIsConfigured, as the running task read it
    tEarly,     \* the storage server was posted while the initialization VM existed
    tCrashes,   \* terminations of the process so far
    \* ---- attachVolumeToServer ----
    aStatus,    \* volume -> its status in Cinder
    aAtt,       \* volume -> servers it is attached to: subset of {"this", "other"}
    aCur,       \* position of the running call in the sequence of the task
    aPc,        \* "get" | "waitAvail" | "post" | "waitInUse" | "done" | "failed"
    aSeen,      \* status read by the program's last step, "none" if it read none
    aPolls,     \* fetches of the current wait that did not find the target
    aPosts,     \* attach requests the call has sent
    aHadAtt,    \* the first GET showed the volume attached to the server
    aRet,       \* status last read when the call returned after an attach request
    \* ---- createRouter ----
    rtExists,   \* a router with the configured name exists
    rtAttached, \* subnets that have an interface on the router
    rtPc,       \* "idle" | "list" | "extnet" | "post" | "attach" | "done"
    rtIdx,      \* position in subnetIds
    rtResult,   \* "none" | "ok" | "failed"
    rtPuts,     \* add_router_interface requests sent by the current call
    rtPosts,    \* routers posted by the current call
    rtCalls,    \* calls of createRouter so far
    \* ---- the security group task: two passes over the configured groups ----
    gExists,    \* names of the security groups that exist in the project
    gAttempted, \* groups whose creation the first pass has attempted
    gPass,      \* 1 | 2 | 3 (the task has returned)
    gIdx,       \* position in config.openstack.security_groups
    gStep,      \* 0: the call for the group itself, k: its k-th rule of this pass
    gLog        \* rules submitted: [id, remote, pass, attempted, existing, resolved, posted]

ensureVars == <<netStore, clStore, eOp, ePc, eName, eTries, ePosts, eResult, ePrev,
                eCalls, extCount, eStatus>>

fipVars == <<fipStore, extNet, fOp, fPc, fName, fResult, fCalls, tagTasks>>

upsertVars == <<kExists, kRv, uOp, uKind, uPc, uExists, uReadRv, uRead, bodyRv, uReq,
                uReads, uWrites, uResult, uPrev, uCalls, kExt>>

pollVars == <<pKind, pTarget, pEnd, pInterval, pPc, now, pWake, pResp, pResult,
              pDoneAt, pFetchErr, objStatus, trueSince, everTrue, envCount>>

runVars == <<rFips, rLbs, rPc, rFipId, rTagPc, rTagFip, crashes>>

backidVars == <<bOp, bProvided, bPopulated, bListed, bPc, bV3, bReads, bBackReqs,
                bToken, bRetries, bResult, bLookupFailed>>

sgVars == <<sgGroups, sgRules, sgCfg, sgPc, sgPath, sgSeen, sgIdx, sgGroupPosts,
            sgRulePosts, sgSwallowed, sgResult, sgCalls>>

reuseVars == <<xKind, xCount, xDrift, xPc, xHad, xWrites, xResult, xPending, xCalls>>

driverVars == <<dAdmin, dPc, dIdx, dStep, dExit, dCalls, dFatal, dAfter, dLogged,
                dFetchErrs, dRan>>

orderVars == <<oLbPos, oIdx, oStep, oPc, oMade, oMaxRank, oUnordered, oEarly, oPosts>>

matchVars == <<mImpl, mStore, mName, mPc, mGot, mCalls>>

vmportVars == <<vPorts, vServer, vPc, vPort, vResult, vOrphaned, vCalls>>

nodesVars == <<nCount, nI, nPc, nNow, nWake, nPostAt, nActiveAt>>

nfVars == <<nfErr, nfOut>>

lbpartsVars == <<lbStatus, lParts, lIdx, lPc, lSeen, lPolls, lRet, lEnv>>

storageVars == <<tBootCfg, tInit, tServer, tPc, tIsCfg, tEarly, tCrashes>>

attachVars == <<aStatus, aAtt, aCur, aPc, aSeen, aPolls, aPosts, aHadAtt, aRet>>

routerVars == <<rtExists, rtAttached, rtPc, rtIdx, rtResult, rtPuts, rtPosts, rtCalls>>

sgtaskVars == <<gExists, gAttempted, gPass, gIdx, gStep, gLog>>

vars == <<scenario, ensureVars, fipVars, upsertVars, pollVars, runVars, backidVars,
          sgVars, reuseVars, driverVars, orderVars, matchVars, vmportVars, nodesVars,
          nfVars, lbpartsVars, storageVars, attachVars, routerVars, sgtaskVars>>

notEnsure == <<scenario, fipVars, upsertVars, pollVars, runVars, backidVars, sgVars,
               reuseVars, driverVars, orderVars, matchVars, vmportVars, nodesVars,
               nfVars, lbpartsVars, storageVars, attachVars, routerVars, sgtaskVars>>
notFip == <<scenario, ensureVars, upsertVars, pollVars, runVars, backidVars, sgVars,
            reuseVars, driverVars, orderVars, matchVars, vmportVars, nodesVars, nfVars,
            lbpartsVars, storageVars, attachVars, routerVars, sgtaskVars>>
notUpsert == <<scenario, ensureVars, fipVars, pollVars, runVars, backidVars, sgVars,
               reuseVars, driverVars, orderVars, matchVars, vmportVars, nodesVars,
               nfVars, lbpartsVars, storageVars, attachVars, routerVars, sgtaskVars>>
notPoll == <<scenario, ensureVars, fipVars, upsertVars, runVars, backidVars, sgVars,
             reuseVars, driverVars, orderVars, matchVars, vmportVars, nodesVars,
             nfVars, lbpartsVars, storageVars, attachVars, routerVars, sgtaskVars>>
notRun == <<scenario, ensureVars, fipVars, upsertVars, pollVars, backidVars, sgVars,
            reuseVars, driverVars, orderVars, matchVars, vmportVars, nodesVars, nfVars,
            lbpartsVars, storageVars, attachVars, routerVars, sgtaskVars>>
notBackid == <<scenario, ensureVars, fipVars, upsertVars, pollVars, runVars, sgVars,
               reuseVars, driverVars, orderVars, matchVars, vmportVars, nodesVars,
               nfVars, lbpartsVars, storageVars, attachVars, routerVars, sgtaskVars>>
notSg == <<scenario, ensureVars, fipVars, upsertVars, pollVars, runVars, backidVars,
           reuseVars, driverVars, orderVars, matchVars, vmportVars, nodesVars, nfVars,
           lbpartsVars, storageVars, attachVars, routerVars, sgtaskVars>>
notReuse == <<scenario, ensureVars, fipVars, upsertVars, pollVars, runVars, backidVars,
              sgVars, driverVars, orderVars, matchVars, vmportVars, nodesVars, nfVars,
              lbpartsVars, storageVars, attachVars, routerVars, sgtaskVars>>
notDriver == <<scenario, ensureVars, fipVars, upsertVars, pollVars, runVars,
               backidVars, sgVars, reuseVars, orderVars, matchVars, vmportVars,
               nodesVars, nfVars, lbpartsVars, storageVars, attachVars, routerVars,
               sgtaskVars>>
notOrder == <<scenario, ensureVars, fipVars, upsertVars, pollVars, runVars, backidVars,
              sgVars, reuseVars, driverVars, matchVars, vmportVars, nodesVars, nfVars,
              lbpartsVars, storageVars, attachVars, routerVars, sgtaskVars>>
notMatch == <<scenario, ensureVars, fipVars, upsertVars, pollVars, runVars, backidVars,
              sgVars, reuseVars, driverVars, orderVars, vmportVars, nodesVars, nfVars,
              lbpartsVars, storageVars, attachVars, routerVars, sgtaskVars>>
notVmport == <<scenario, ensureVars, fipVars, upsertVars, pollVars, runVars,
               backidVars, sgVars, reuseVars, driverVars, orderVars, matchVars,
               nodesVars, nfVars, lbpartsVars, storageVars, attachVars, routerVars,
               sgtaskVars>>
notNodes == <<scenario, ensureVars, fipVars, upsertVars, pollVars, runVars, backidVars,
              sgVars, reuseVars, driverVars, orderVars, matchVars, vmportVars, nfVars,
              lbpartsVars, storageVars, attachVars, routerVars, sgtaskVars>>
notNotfound == <<scenario, ensureVars, fipVars, upsertVars, pollVars, runVars,
                 backidVars, sgVars, reuseVars, driverVars, orderVars, matchVars,
                 vmportVars, nodesVars, lbpartsVars, storageVars, attachVars,
                 routerVars, sgtaskVars>>
notLbparts == <<scenario, ensureVars, fipVars, upsertVars, pollVars, runVars,
                backidVars, sgVars, reuseVars, driverVars, orderVars, matchVars,
                vmportVars, nodesVars, nfVars, storageVars, attachVars, routerVars,
                sgtaskVars>>
notStorage == <<scenario, ensureVars, fipVars, upsertVars, pollVars, runVars,
                backidVars, sgVars, reuseVars, driverVars, orderVars, matchVars,
                vmportVars, nodesVars, nfVars, lbpartsVars, attachVars, routerVars,
                sgtaskVars>>
notAttach == <<scenario, ensureVars, fipVars, upsertVars, pollVars, runVars,
               backidVars, sgVars, reuseVars, driverVars, orderVars, matchVars,
               vmportVars, nodesVars, nfVars, lbpartsVars, storageVars, routerVars,
               sgtaskVars>>
notRouter == <<scenario, ensureVars, fipVars, upsertVars, pollVars, runVars,
               backidVars, sgVars, reuseVars, driverVars, orderVars, matchVars,
               vmportVars, nodesVars, nfVars, lbpartsVars, storageVars, attachVars,
               sgtaskVars>>
notSgtask == <<scenario, ensureVars, fipVars, upsertVars, pollVars, runVars,
               backidVars, sgVars, reuseVars, driverVars, orderVars, matchVars,
               vmportVars, nodesVars, nfVars, lbpartsVars, storageVars, attachVars,
               routerVars>>

----------------------------------------------------------------------------
(* Bounds of the model *)
MaxCalls == 2
MaxExt == 1

(* rancher.js:174 `for (let i = 0; i < 5; i++)` *)
BackRefRetries == 5

NetNames == {"net-a", "net-b"}

(* Cluster names are character sequences: getCluster counts their hyphens. *)
ClusterNames == { <<"k">>, <<"a", "-", "b", "-", "c", "-", "d">> }

NoResult == [kind |-> "none", id |-> 0, op |-> "none", name |-> "", posts |-> 0]

----------------------------------------------------------------------------
(* Helpers *)

Min(S) == CHOOSE x \in S : \A y \in S : x <= y

(* A lookup that sees no element *)
FindNothing(list, name) == 0

(* Array.prototype.find with a name predicate: index of the first element   *)
(* whose name equals `name`, 0 when there is none.                          *)
FindByName(list, name) ==
    LET hits == {i \in 1..Len(list) : list[i].name = name}
    IN  IF hits = {} THEN 0 ELSE Min(hits)

RECURSIVE CountHyphens(_)
CountHyphens(s) ==
    IF s = <<>> THEN 0
    ELSE (IF Head(s) = "-" THEN 1 ELSE 0) + CountHyphens(Tail(s))

(* getCluster: `(clusterIdOrName.match(/-/g) || []).length === 3` *)
UseV3Api(idOrName) == CountHyphens(idOrName) = 3

Outcome(kind, id) ==
    [kind |-> kind, id |-> id, op |-> eOp, name |-> eName, posts |-> ePosts]

OutcomePosted(kind, id) ==
    [kind |-> kind, id |-> id, op |-> eOp, name |-> eName, posts |-> ePosts + 1]

----------------------------------------------------------------------------
(* Create-if-absent: OpenStackController.createNetwork and                  *)
(* RancherController.createCluster                                          *)

EnsureInit ==
    /\ netStore = <<>>
    /\ clStore = <<>>
    /\ eOp = "none"
    /\ ePc = "idle"
    /\ eName = ""
    /\ eTries = 0
    /\ ePosts = 0
    /\ eResult = NoResult
    /\ ePrev = NoResult
    /\ eCalls = 0
    /\ extCount = 0
    /\ eStatus = "none"

(* A task calls createNetwork(networkConfig) or createCluster(clusterConfig) *)
EnsureCall ==
    /\ scenario = "ensure"
    /\ ePc \in {"idle", "done"}
    /\ eCalls < MaxCalls
    /\ \E op \in {"network", "cluster"} :
         \E name \in (IF op = "network" THEN NetNames ELSE ClusterNames) :
            /\ eOp' = op
            /\ eName' = name
    /\ ePc' = "list"
    /\ eTries' = 0
    /\ ePosts' = 0
    /\ ePrev' = eResult
    /\ eResult' = NoResult
    /\ eCalls' = eCalls + 1
    /\ eStatus' = "none"
    /\ UNCHANGED <<notEnsure, netStore, clStore, extCount>>

(* network.status in the answers of Neutron *)
NetStatuses == {"BUILD", "ACTIVE"}

(* createNetwork: networksGet, then find by name; the object found is        *)
(* returned as the list shows it                                             *)
NetList ==
    /\ scenario = "ensure"
    /\ eOp = "network"
    /\ ePc = "list"
    /\ \E answered \in BOOLEAN :
         IF ~answered
         THEN /\ ePc' = "done"
              /\ eResult' = Outcome("unavailable", 0)
              /\ eStatus' = eStatus
         ELSE LET i == FindByName(netStore, eName)
              IN  IF i # 0
                  THEN /\ ePc' = "done"
                       /\ eResult' = Outcome("ok", netStore[i].id)
                       /\ eStatus' \in NetStatuses
                  ELSE /\ ePc' = "post"
                       /\ eResult' = eResult
                       /\ eStatus' = eStatus
    /\ UNCHANGED <<notEnsure, netStore, clStore, eOp, eName, eTries, ePosts, ePrev,
                   eCalls, extCount>>

(* createNetwork: networksPost; the answer's network is returned at once,    *)
(* any error is logged and rethrown                                          *)
NetPost ==
    /\ scenario = "ensure"
    /\ eOp = "network"
    /\ ePc = "post"
    /\ ePosts' = ePosts + 1
    /\ ePc' = "done"
    /\ \E answer \in {"created", "conflict", "unavailable"} :
         /\ answer = "conflict" => FindByName(netStore, eName) # 0
         /\ IF answer = "created"
            THEN LET id == Len(netStore) + 1
                 IN  /\ netStore' = Append(netStore, [id |-> id, name |-> eName])
                     /\ eResult' = OutcomePosted("ok", id)
                     /\ eStatus' \in NetStatuses
            ELSE /\ netStore' = netStore
                 /\ eResult' = OutcomePosted(answer, 0)
                 /\ eStatus' = eStatus
    /\ UNCHANGED <<notEnsure, clStore, eOp, eName, eTries, ePrev, eCalls, extCount>>

(* createCluster: GET /provisioning.cattle.io.clusters, find by metadata.name *)
ClList ==
    /\ scenario = "ensure"
    /\ eOp = "cluster"
    /\ ePc = "list"
    /\ \E answered \in BOOLEAN :
         IF ~answered
         THEN /\ ePc' = "done"
              /\ eResult' = Outcome("unavailable", 0)
         ELSE LET i == FindByName(clStore, eName)
              IN  IF i # 0
                  THEN /\ ePc' = "done"
                       /\ eResult' = Outcome("ok", clStore[i].id)
                  ELSE /\ ePc' = "post"
                       /\ eResult' = eResult
    /\ UNCHANGED <<notEnsure, eStatus, netStore, clStore, eOp, eName, eTries, ePosts, ePrev,
                   eCalls, extCount>>

(* createCluster: POST the cluster; the answer may or may not carry          *)
(* status.clusterName already                                               *)
ClPost ==
    /\ scenario = "ensure"
    /\ eOp = "cluster"
    /\ ePc = "post"
    /\ ePosts' = ePosts + 1
    /\ \E answer \in {"created", "conflict", "unavailable"}, populated \in BOOLEAN :
         /\ answer = "conflict" <=> FindByName(clStore, eName) # 0
         /\ answer # "created" => ~populated
         /\ IF answer = "created"
            THEN LET id == Len(clStore) + 1
                 IN  /\ clStore' = Append(clStore,
                            [id |-> id, name |-> eName,
                             backId |-> IF populated THEN 100 + id ELSE 0])
                     /\ IF populated
                        THEN ePc' = "done" /\ eResult' = OutcomePosted("ok", id)
                        ELSE ePc' = "backref" /\ eResult' = OutcomePosted("pending", id)
            ELSE /\ clStore' = clStore
                 /\ ePc' = "done"
                 /\ eResult' = OutcomePosted(answer, 0)
    /\ UNCHANGED <<notEnsure, eStatus, netStore, eOp, eName, eTries, ePrev, eCalls, extCount>>

(* createCluster: one iteration of the loop that waits for the v3 cluster id: *)
(* sleep 5 s, getCluster(cluster.metadata.name), test status.clusterName.    *)
(* After the last iteration the cluster is returned as it is.               *)
ClBackRef ==
    /\ scenario = "ensure"
    /\ eOp = "cluster"
    /\ ePc = "backref"
    /\ eTries < BackRefRetries
    /\ LET i == FindByName(clStore, eName)
           again == /\ eTries' = eTries + 1
                    /\ IF eTries + 1 = BackRefRetries
                       THEN ePc' = "done" /\ eResult' = Outcome("ok", eResult.id)
                       ELSE ePc' = "backref" /\ eResult' = eResult
           throws == /\ eTries' = eTries
                     /\ ePc' = "done"
                     /\ eResult' = Outcome("unavailable", 0)
       IN  IF UseV3Api(eName)
           THEN \* GET /v3/clusters/<name> is not found; the list fallback either
                \* throws or yields a v3 object, which has no status.clusterName
                \/ throws
                \/ again
           ELSE \/ throws
                \/ /\ i # 0
                   /\ IF clStore[i].backId # 0
                      THEN /\ eTries' = eTries
                           /\ ePc' = "done"
                           /\ eResult' = Outcome("ok", eResult.id)
                      ELSE again
    /\ UNCHANGED <<notEnsure, eStatus, netStore, clStore, eOp, eName, ePosts, ePrev, eCalls,
                   extCount>>

(* The platform fills in status.clusterName of a cluster some time after its *)
(* creation.                                                                *)
PlatformPopulate ==
    /\ scenario = "ensure"
    /\ \E i \in 1..Len(clStore) :
         /\ clStore[i].backId = 0
         /\ clStore' = [clStore EXCEPT ![i].backId = 100 + clStore[i].id]
    /\ UNCHANGED <<notEnsure, eStatus, netStore, eOp, ePc, eName, eTries, ePosts, eResult, ePrev,
                   eCalls, extCount>>

(* Another operator creates a network in the same project. *)
ExtCreateNetwork ==
    /\ scenario = "ensure"
    /\ extCount < MaxExt
    /\ \E name \in NetNames :
         netStore' = Append(netStore, [id |-> Len(netStore) + 1, name |-> name])
    /\ extCount' = extCount + 1
    /\ UNCHANGED <<notEnsure, eStatus, clStore, eOp, ePc, eName, eTries, ePosts, eResult, ePrev,
                   eCalls>>

EnsureNext ==
    \/ EnsureCall
    \/ NetList
    \/ NetPost
    \/ ClList
    \/ ClPost
    \/ ClBackRef
    \/ PlatformPopulate
    \/ ExtCreateNetwork

----------------------------------------------------------------------------
(* Floating IPs: OpenStackController.createFloatingIP, addTagsToFloatingIP, *)
(* getFloatingIP                                                            *)

MaxFipCalls == 3

FipNames == { <<"x">>, <<"x", "y">> }

(* `name:${floatingIpConfig.name}` *)
NameTag(name) == <<"n", "a", "m", "e", ":">> \o name

IsPrefix(p, s) == Len(p) <= Len(s) /\ SubSeq(s, 1, Len(p)) = p

(* A lookup by tag prefix instead of tag equality *)
TagsIncludePrefix(tags, tag) == \E t \in tags : IsPrefix(tag, t)

(* ip.tags.includes(tag) on an array of strings: some element equals tag *)
TagsInclude(tags, tag) == tag \in tags

(* floatingIps.find((ip) => ip.tags && ip.tags.includes(`name:${name}`)) *)
FindByTag(list, name) ==
    LET hits == {i \in 1..Len(list) : TagsInclude(list[i].tags, NameTag(name))}
    IN  IF hits = {} THEN 0 ELSE Min(hits)

FipOutcome(kind, id, found) == [kind |-> kind, id |-> id, found |-> found]

FipInit ==
    /\ fipStore = <<>>
    /\ extNet \in (IF scenario = "fip" THEN BOOLEAN ELSE {TRUE})
    /\ fOp = "none"
    /\ fPc = "idle"
    /\ fName = <<>>
    /\ fResult = FipOutcome("none", 0, FALSE)
    /\ fCalls = 0
    /\ tagTasks = {}

(* 03-ips.js calls createFloatingIP for each configured IP; the load         *)
(* balancer task calls getFloatingIP.                                       *)
FipCall ==
    /\ scenario = "fip"
    /\ fPc \in {"idle", "done"}
    /\ fCalls < MaxFipCalls
    /\ fOp' \in {"create", "get"}
    /\ fName' \in FipNames
    /\ fPc' = "list"
    /\ fResult' = FipOutcome("none", 0, FALSE)
    /\ fCalls' = fCalls + 1
    /\ UNCHANGED <<notFip, fipStore, extNet, tagTasks>>

(* GET network/v2.0/floatingips, then find by tag *)
FipList ==
    /\ scenario = "fip"
    /\ fPc = "list"
    /\ \E answered \in BOOLEAN :
         IF ~answered
         THEN /\ fPc' = "done"
              /\ fResult' = FipOutcome("unavailable", 0, FALSE)
         ELSE LET i == FindByTag(fipStore, fName)
              IN  IF i # 0
                  THEN /\ fPc' = "done"
                       /\ fResult' = FipOutcome("ok", fipStore[i].id, TRUE)
                  ELSE IF fOp = "get"
                       THEN /\ fPc' = "done"
                            /\ fResult' = FipOutcome("notfound", 0, FALSE)
                       ELSE /\ fPc' = "nets"
                            /\ fResult' = fResult
    /\ UNCHANGED <<notFip, fipStore, extNet, fOp, fName, fCalls, tagTasks>>

(* createFloatingIP: GET network/v2.0/networks, find ext-floating1 *)
FipNets ==
    /\ scenario = "fip"
    /\ fPc = "nets"
    /\ IF extNet
       THEN fPc' = "post" /\ fResult' = fResult
       ELSE fPc' = "done" /\ fResult' = FipOutcome("noextnet", 0, FALSE)
    /\ UNCHANGED <<notFip, fipStore, extNet, fOp, fName, fCalls, tagTasks>>

(* createFloatingIP: POST the floating IP, start addTagsToFloatingIP without *)
(* awaiting it (its first request, a GET, is now in flight) and return.     *)
FipPost ==
    /\ scenario = "fip"
    /\ fPc = "post"
    /\ fPc' = "done"
    /\ \E answered \in BOOLEAN :
         IF answered
         THEN LET id == Len(fipStore) + 1
              IN  /\ fipStore' = Append(fipStore,
                        [id |-> id, createdFor |-> fName, tags |-> {}])
                  /\ tagTasks' = tagTasks \cup
                        {[fip |-> id, tag |-> NameTag(fName), pc |-> "get"]}
                  /\ fResult' = FipOutcome("ok", id, FALSE)
         ELSE /\ fipStore' = fipStore
              /\ tagTasks' = tagTasks
              /\ fResult' = FipOutcome("unavailable", 0, FALSE)
    /\ UNCHANGED <<notFip, extNet, fOp, fName, fCalls>>

(* addTagsToFloatingIP: GET the floating IP, compute the tags to add *)
TagGet ==
    /\ scenario = "fip"
    /\ \E t \in tagTasks :
         /\ t.pc = "get"
         /\ tagTasks' =
              IF TagsInclude(fipStore[t.fip].tags, t.tag)
              THEN tagTasks \ {t}
              ELSE (tagTasks \ {t}) \cup {[t EXCEPT !.pc = "put"]}
    /\ UNCHANGED <<notFip, fipStore, extNet, fOp, fPc, fName, fResult,
                   fCalls>>

(* addTagsToFloatingIP: PUT .../tags/<tag>; a failure rejects a promise      *)
(* nobody holds                                                             *)
TagPut ==
    /\ scenario = "fip"
    /\ \E t \in tagTasks :
         /\ t.pc = "put"
         /\ \E answered \in BOOLEAN :
              IF answered
              THEN /\ fipStore' = [fipStore EXCEPT ![t.fip].tags = @ \cup {t.tag}]
                   /\ tagTasks' = (tagTasks \ {t}) \cup {[t EXCEPT !.pc = "reget"]}
              ELSE /\ fipStore' = fipStore
                   /\ tagTasks' = tagTasks \ {t}
    /\ UNCHANGED <<notFip, extNet, fOp, fPc, fName, fResult, fCalls>>

(* addTagsToFloatingIP: GET the updated floating IP and finish *)
TagReGet ==
    /\ scenario = "fip"
    /\ \E t \in tagTasks :
         /\ t.pc = "reget"
         /\ tagTasks' = tagTasks \ {t}
    /\ UNCHANGED <<notFip, fipStore, extNet, fOp, fPc, fName, fResult,
                   fCalls>>

FipNext ==
    \/ FipCall
    \/ FipList
    \/ FipNets
    \/ FipPost
    \/ TagGet
    \/ TagPut
    \/ TagReGet

----------------------------------------------------------------------------
(* Create-or-replace: KubernetesController.createOrUpdateResource and       *)
(* ensureDBCredentialsSecret (12-keycloak.js)                               *)

MaxUpsertCalls == 2
MaxKExt == 1

(* kinds createOrUpdateResource reads through the core API, and a custom kind *)
CoreKinds == {"Secret", "ConfigMap", "Service", "PersistentVolumeClaim"}
Kinds == CoreKinds \cup {"Keycloak"}

(* kinds for which the `exists` branch issues a replace request: the core    *)
(* branch has no case for PersistentVolumeClaim                             *)
ReplacedKinds == {"Secret", "ConfigMap", "Service", "Keycloak"}

NoReq == [type |-> "none", token |-> 0]

UOutcome(kind, action) == [kind |-> kind, action |-> action, op |-> uOp, ukind |-> uKind]

(* An upsert that would read again after a rejected replace *)
RetryAfterRejection == "read"

(* What createOrUpdateResource does when the replace is rejected: the catch   *)
(* block logs and rethrows.                                                 *)
AfterRejection == "done"

(* Whether the operation goes on to replace an existing object whose read    *)
(* carried no version token.  createOrUpdateResource only guards the         *)
(* assignment of the token; ensureDBCredentialsSecret returns.              *)
ReplacesWithoutToken(op) == op = "upsert"

UpsertInit ==
    /\ kExists \in (IF scenario = "upsert" THEN BOOLEAN ELSE {FALSE})
    /\ kRv = 1
    /\ uOp = "none"
    /\ uKind = "Secret"
    /\ uPc = "idle"
    /\ uExists = FALSE
    /\ uReadRv = 0
    /\ uRead = "none"
    /\ bodyRv = 0
    /\ uReq = NoReq
    /\ uReads = 0
    /\ uWrites = 0
    /\ uResult = UOutcome("none", "none")
    /\ uPrev = UOutcome("none", "none")
    /\ uCalls = 0
    /\ kExt = 0

(* A task calls createOrUpdateResource(params) or ensureDBCredentialsSecret. *)
(* The caller passes either the params object of its previous call (whose    *)
(* body the previous call may have written a version token into) or a new    *)
(* one.  ensureDBCredentialsSecret builds its body itself.                  *)
UpsertCall ==
    /\ scenario = "upsert"
    /\ uPc \in {"idle", "done"}
    /\ uCalls < MaxUpsertCalls
    /\ \E op \in {"upsert", "secret"}, kind \in Kinds, sameParams \in BOOLEAN :
         /\ op = "secret" => kind = "Secret" /\ ~sameParams
         /\ sameParams => uOp = "upsert" /\ uKind = kind /\ op = "upsert"
         /\ uOp' = op
         /\ uKind' = kind
         /\ bodyRv' = IF sameParams THEN bodyRv ELSE 0
    /\ uPc' = "read"
    /\ uExists' = FALSE
    /\ uReadRv' = 0
    /\ uRead' = "none"
    /\ uReq' = NoReq
    /\ uReads' = 0
    /\ uWrites' = 0
    /\ uPrev' = uResult
    /\ uResult' = UOutcome("none", "none")
    /\ uCalls' = uCalls + 1
    /\ UNCHANGED <<notUpsert, kExists, kRv, kExt>>

(* A read that takes every answer for an object found *)
ExistsWhateverRead(answer) == TRUE

(* `exists` after the read: true when the read returned, false when it       *)
(* threw an error whose code is 404                                          *)
ExistsAfterRead(answer) == answer # "absent"

(* read the object (readNamespaced<Kind>, getNamespacedCustomObject);        *)
(* a 404 means absent, any other error is rethrown; when the object is       *)
(* found, copy its resourceVersion, if it has one, into the body            *)
UpsertRead ==
    /\ scenario = "upsert"
    /\ uPc = "read"
    /\ uReads' = uReads + 1
    /\ \E answer \in {"found", "notoken", "absent", "unavailable"} :
         /\ answer \in {"found", "notoken"} => kExists
         /\ answer = "absent" => ~kExists
         /\ IF answer = "unavailable"
            THEN /\ uPc' = "done"
                 /\ uResult' = UOutcome("unavailable", "none")
                 /\ UNCHANGED <<uExists, uReadRv, uRead, bodyRv>>
            ELSE /\ uRead' = answer
                 /\ uExists' = ExistsAfterRead(answer)
                 /\ uReadRv' = IF answer = "found" THEN kRv ELSE 0
                 /\ bodyRv' = IF answer = "found" /\ uOp = "upsert" THEN kRv ELSE bodyRv
                 /\ IF answer = "notoken" /\ ~ReplacesWithoutToken(uOp)
                    THEN uPc' = "done" /\ uResult' = UOutcome("ok", "skipped")
                    ELSE uPc' = "write" /\ uResult' = uResult
    /\ UNCHANGED <<notUpsert, kExists, kRv, uOp, uKind, uReq, uWrites, uPrev, uCalls,
                   kExt>>

(* `exists` branch: replaceNamespaced<Kind> / replaceNamespacedCustomObject  *)
(* with params.body (ensureDBCredentialsSecret: a body carrying the token    *)
(* just read).  The cluster rejects a body whose resourceVersion is not the  *)
(* current one, and an object that is gone.                                 *)
UpsertReplace ==
    /\ scenario = "upsert"
    /\ uPc = "write"
    /\ uExists
    /\ LET token == IF uOp = "secret" THEN uReadRv ELSE bodyRv
       IN  IF uKind \notin ReplacedKinds
           THEN /\ uPc' = "done"
                /\ uResult' = UOutcome("ok", "updated")
                /\ UNCHANGED <<kRv, uReq, uWrites>>
           ELSE /\ uReq' = [type |-> "replace", token |-> token]
                /\ uWrites' = uWrites + 1
                /\ \E answered \in BOOLEAN :
                     IF ~answered
                     THEN /\ uPc' = "done"
                          /\ uResult' = UOutcome("unavailable", "none")
                          /\ kRv' = kRv
                     ELSE IF ~kExists
                     THEN /\ uPc' = "done"
                          /\ uResult' = UOutcome("notfound", "none")
                          /\ kRv' = kRv
                     ELSE IF token # 0 /\ token # kRv
                     THEN /\ uPc' = AfterRejection
                          /\ uResult' = UOutcome("conflict", "none")
                          /\ kRv' = kRv
                     ELSE /\ uPc' = "done"
                          /\ uResult' = UOutcome("ok", "updated")
                          /\ kRv' = kRv + 1
    /\ UNCHANGED <<notUpsert, kExists, uOp, uKind, uExists, uReadRv, uRead, bodyRv,
                   uReads, uPrev, uCalls, kExt>>

(* `else` branch: createNamespaced<Kind> / createNamespacedCustomObject with  *)
(* params.body.  The cluster rejects the creation of an object that exists   *)
(* and a body that carries a resourceVersion.                               *)
UpsertCreate ==
    /\ scenario = "upsert"
    /\ uPc = "write"
    /\ ~uExists
    /\ uReq' = [type |-> "create", token |-> bodyRv]
    /\ uWrites' = uWrites + 1
    /\ uPc' = "done"
    /\ \E answered \in BOOLEAN :
         IF ~answered
         THEN /\ uResult' = UOutcome("unavailable", "none")
              /\ UNCHANGED <<kExists, kRv>>
         ELSE IF kExists
         THEN /\ uResult' = UOutcome("conflict", "none")
              /\ UNCHANGED <<kExists, kRv>>
         ELSE IF bodyRv # 0
         THEN /\ uResult' = UOutcome("invalid", "none")
              /\ UNCHANGED <<kExists, kRv>>
         ELSE /\ uResult' = UOutcome("ok", "created")
              /\ kExists' = TRUE
              /\ kRv' = kRv + 1
    /\ UNCHANGED <<notUpsert, uOp, uKind, uExists, uReadRv, uRead, bodyRv, uReads,
                   uPrev, uCalls, kExt>>

(* Another client of the cluster (a controller, an operator) updates,        *)
(* creates or deletes the object.                                           *)
KExtWrite ==
    /\ scenario = "upsert"
    /\ kExt < MaxKExt
    /\ kExists' \in BOOLEAN
    /\ kExists \/ kExists'
    /\ kRv' = kRv + 1
    /\ kExt' = kExt + 1
    /\ UNCHANGED <<notUpsert, uOp, uKind, uPc, uExists, uReadRv, uRead, bodyRv, uReq,
                   uReads, uWrites, uResult, uPrev, uCalls>>

UpsertNext ==
    \/ UpsertCall
    \/ UpsertRead
    \/ UpsertReplace
    \/ UpsertCreate
    \/ KExtWrite

----------------------------------------------------------------------------
(* Status pollers: OpenStackController.waitForServerStatus,                  *)
(* waitForVolumeStatus, waitForLoadBalancerStatus,                           *)
(* RancherController.waitForClusterReady, KubernetesController.waitForResource *)

MaxTimeout == 12
MaxLat == 1
MaxEnv == 2

(* `setTimeout(resolve, 5000)` of the OpenStack pollers, in seconds *)
PollIntervalSec == 5

(* `setTimeout(resolve, 10000)` of waitForClusterReady, in seconds *)
ClusterPollIntervalSec == 10

PollKinds == {"server", "volume", "lb", "cluster", "resource"}

PollTimeouts == {MaxTimeout - 2, MaxTimeout}

(* waitForResource takes its interval from the caller (default 5000 ms,      *)
(* 12-keycloak.js passes 10000)                                             *)
PollIntervals(kind) ==
    CASE kind = "cluster" -> {ClusterPollIntervalSec}
      [] kind = "resource" -> {PollIntervalSec, ClusterPollIntervalSec}
      [] OTHER -> {PollIntervalSec}

PollTargets(kind) == IF kind = "server" THEN {"ACTIVE", "ABSENT"} ELSE {"ACTIVE"}

Statuses == {"BUILD", "ACTIVE", "active", "GONE"}

(* String.prototype.toLowerCase on the status values of the model *)
Lower(st) ==
    CASE st = "ACTIVE" -> "active"
      [] st = "BUILD" -> "build"
      [] st = "ABSENT" -> "absent"
      [] st = "GONE" -> "gone"
      [] OTHER -> st

(* A wait that would take any status for the target *)
SatisfiedByAny(kind, target, st) == TRUE

(* The test each poller applies to a fetched object *)
Satisfies(kind, target, st) ==
    CASE kind = "volume" -> Lower(st) = Lower(target)
      [] kind = "cluster" -> st = "ACTIVE"     \* cluster.status?.ready
      [] kind = "resource" -> st = "ACTIVE"    \* condition(normalizedResource)
      [] OTHER -> st = target

(* A server wait that would take not-found as success for any target *)
NotFoundAlwaysSuccess(kind, target) == kind = "server"

(* waitForServerStatus: `targetStatus === 'ABSENT' && error.response?.status === 404` *)
NotFoundIsSuccess(kind, target) == kind = "server" /\ target = "ABSENT"

(* The condition the object is waited to reach, as a fact about the object *)
Reached(kind, target, st) ==
    IF st = "GONE" THEN NotFoundIsSuccess(kind, target)
    ELSE Satisfies(kind, target, st)

(* A loop that would stop one interval before the deadline *)
LoopStopsEarly(t, end) == t + PollIntervalSec < end

(* `while (Date.now() < endTime)`; waitForResource:                           *)
(* `while (Date.now() - startTime < timeout)`                                *)
LoopContinues(t, end) == t < end

(* A poller that would return false whatever its kind *)
TimeoutAlwaysFalse(kind) == "false"

(* What a poller does when the loop ends: waitForResource logs and returns   *)
(* false, the others throw `Timeout waiting for ...`                         *)
TimeoutOutcome(kind) == IF kind = "resource" THEN "false" ELSE "timeout"

PollInit ==
    /\ pKind \in (IF scenario = "poll" THEN PollKinds ELSE {"server"})
    /\ pTarget \in (IF scenario = "poll" THEN PollTargets(pKind) ELSE {"ACTIVE"})
    /\ pEnd \in (IF scenario = "poll" THEN PollTimeouts ELSE {MaxTimeout})
    /\ pInterval \in (IF scenario = "poll" THEN PollIntervals(pKind) ELSE {PollIntervalSec})
    /\ objStatus \in (IF scenario = "poll" THEN Statuses ELSE {"BUILD"})
    /\ pPc = "check"
    /\ now = 0
    /\ pWake = 0
    /\ pResp = "none"
    /\ pResult = "none"
    /\ pDoneAt = 0
    /\ pFetchErr = FALSE
    /\ trueSince = IF Reached(pKind, pTarget, objStatus) THEN 0 ELSE -1
    /\ everTrue = Reached(pKind, pTarget, objStatus)
    /\ envCount = 0

(* Loop head: test the deadline; if it has not passed, send the fetch.  The  *)
(* platform answers with the object as it is now; the answer arrives after   *)
(* the request's latency.                                                   *)
PollCheck ==
    /\ scenario = "poll"
    /\ pPc = "check"
    /\ IF LoopContinues(now, pEnd)
       THEN /\ pPc' = "fetch"
            /\ \E lat \in 0..MaxLat : pWake' = now + lat
            /\ \E failed \in BOOLEAN : pResp' = IF failed THEN "fail" ELSE objStatus
            /\ UNCHANGED <<pResult, pDoneAt>>
       ELSE /\ pPc' = "done"
            /\ pResult' = TimeoutOutcome(pKind)
            /\ pDoneAt' = now
            /\ UNCHANGED <<pWake, pResp>>
    /\ UNCHANGED <<notPoll, pKind, pTarget, pEnd, pInterval, now, pFetchErr, objStatus,
                   trueSince, everTrue, envCount>>

(* The fetch has answered: return, throw or go to sleep *)
PollRecv ==
    /\ scenario = "poll"
    /\ pPc = "fetch"
    /\ now = pWake
    /\ LET sleep == /\ pPc' = "sleep"
                    /\ pWake' = now + pInterval
                    /\ UNCHANGED <<pResult, pDoneAt>>
           finish(r) == /\ pPc' = "done"
                        /\ pResult' = r
                        /\ pDoneAt' = now
                        /\ pWake' = pWake
       IN  IF pResp = "fail"
           THEN /\ pFetchErr' = TRUE
                /\ IF pKind = "resource" THEN sleep ELSE finish("error")
           ELSE IF pResp = "GONE"
           THEN IF pKind = "resource"
                THEN sleep /\ pFetchErr' = pFetchErr
                ELSE IF NotFoundIsSuccess(pKind, pTarget)
                THEN finish("ok") /\ pFetchErr' = pFetchErr
                ELSE finish("error") /\ pFetchErr' = TRUE
           ELSE /\ pFetchErr' = pFetchErr
                /\ IF Satisfies(pKind, pTarget, pResp) THEN finish("ok") ELSE sleep
    /\ UNCHANGED <<notPoll, pKind, pTarget, pEnd, pInterval, now, pResp, objStatus,
                   trueSince, everTrue, envCount>>

(* The sleep has ended: back to the loop head *)
PollWake ==
    /\ scenario = "poll"
    /\ pPc = "sleep"
    /\ now = pWake
    /\ pPc' = "check"
    /\ UNCHANGED <<notPoll, pKind, pTarget, pEnd, pInterval, now, pWake, pResp, pResult,
                   pDoneAt, pFetchErr, objStatus, trueSince, everTrue, envCount>>

(* One second passes while the poller waits for an answer or sleeps *)
Tick ==
    /\ scenario = "poll"
    /\ pPc \in {"fetch", "sleep"}
    /\ now < pWake
    /\ now' = now + 1
    /\ UNCHANGED <<notPoll, pKind, pTarget, pEnd, pInterval, pPc, pWake, pResp, pResult,
                   pDoneAt, pFetchErr, objStatus, trueSince, everTrue, envCount>>

(* The platform changes the status of the polled object, or deletes it *)
EnvChange ==
    /\ scenario = "poll"
    /\ pPc # "done"
    /\ envCount < MaxEnv
    /\ envCount' = envCount + 1
    /\ objStatus' \in Statuses \ {objStatus}
    /\ trueSince' = IF Reached(pKind, pTarget, objStatus')
                    THEN (IF trueSince # -1 THEN trueSince ELSE now)
                    ELSE -1
    /\ everTrue' = (everTrue \/ (Reached(pKind, pTarget, objStatus') /\ now < pEnd))
    /\ UNCHANGED <<notPoll, pKind, pTarget, pEnd, pInterval, pPc, now, pWake, pResp,
                   pResult, pDoneAt, pFetchErr>>

PollNext ==
    \/ PollCheck
    \/ PollRecv
    \/ PollWake
    \/ Tick
    \/ EnvChange

----------------------------------------------------------------------------
(* One installer run over a project that starts empty: tasks/03-ips.js       *)
(* (createFloatingIP) followed by the load balancer task (getFloatingIP,     *)
(* createLoadBalancer, waitForLoadBalancerStatus).  Every step is one remote *)
(* call; the process can be terminated between any two of them and the run   *)
(* started again.                                                           *)

MaxCrashes == 2

(* floatingIps.find((ip) => ip.tags && ip.tags.includes(`name:${name}`)) *)
FirstTagged(fips) ==
    IF \E i \in 1..Len(fips) : fips[i].tagged
    THEN Min({i \in 1..Len(fips) : fips[i].tagged})
    ELSE 0

RunInit ==
    /\ rFips = <<>>
    /\ rLbs = 0
    /\ rPc = "ipList"
    /\ rFipId = 0
    /\ rTagPc = "none"
    /\ rTagFip = 0
    /\ crashes = 0

(* createFloatingIP: GET network/v2.0/floatingips, look the name tag up *)
RunIpList ==
    /\ scenario = "run"
    /\ rPc = "ipList"
    /\ rPc' = IF FirstTagged(rFips) # 0 THEN "lbNet" ELSE "ipNets"
    /\ UNCHANGED <<notRun, rFips, rLbs, rFipId, rTagPc, rTagFip, crashes>>

(* createFloatingIP: networksGet, find ext-floating1 *)
RunIpNets ==
    /\ scenario = "run"
    /\ rPc = "ipNets"
    /\ rPc' = "ipPost"
    /\ UNCHANGED <<notRun, rFips, rLbs, rFipId, rTagPc, rTagFip, crashes>>

(* createFloatingIP: floatingipsPost, then addTagsToFloatingIP is started    *)
(* without being awaited and the task goes on                                *)
RunIpPost ==
    /\ scenario = "run"
    /\ rPc = "ipPost"
    /\ rFips' = Append(rFips, [tagged |-> FALSE, port |-> FALSE])
    /\ rTagPc' = "get"
    /\ rTagFip' = Len(rFips) + 1
    /\ rPc' = "lbNet"
    /\ UNCHANGED <<notRun, rLbs, rFipId, crashes>>

(* addTagsToFloatingIP: GET the floating IP *)
RunTagGet ==
    /\ scenario = "run"
    /\ rTagPc = "get"
    /\ rTagPc' = "put"
    /\ UNCHANGED <<notRun, rFips, rLbs, rPc, rFipId, rTagFip, crashes>>

(* addTagsToFloatingIP: PUT .../tags/name:<name> *)
RunTagPut ==
    /\ scenario = "run"
    /\ rTagPc = "put"
    /\ rFips' = [rFips EXCEPT ![rTagFip].tagged = TRUE]
    /\ rTagPc' = "reget"
    /\ UNCHANGED <<notRun, rLbs, rPc, rFipId, rTagFip, crashes>>

(* addTagsToFloatingIP: GET the updated floating IP *)
RunTagReGet ==
    /\ scenario = "run"
    /\ rTagPc = "reget"
    /\ rTagPc' = "none"
    /\ UNCHANGED <<notRun, rFips, rLbs, rPc, rFipId, rTagFip, crashes>>

(* load balancer task: getNetwork *)
RunLbNet ==
    /\ scenario = "run"
    /\ rPc = "lbNet"
    /\ rPc' = "lbSubnets"
    /\ UNCHANGED <<notRun, rFips, rLbs, rFipId, rTagPc, rTagFip, crashes>>

(* load balancer task: subnetsGet *)
RunLbSubnets ==
    /\ scenario = "run"
    /\ rPc = "lbSubnets"
    /\ rPc' = "lbFip"
    /\ UNCHANGED <<notRun, rFips, rLbs, rFipId, rTagPc, rTagFip, crashes>>

(* load balancer task: getFloatingIP throws when no floating IP has the tag *)
RunLbFip ==
    /\ scenario = "run"
    /\ rPc = "lbFip"
    /\ rFipId' = FirstTagged(rFips)
    /\ rPc' = IF FirstTagged(rFips) = 0 THEN "failed" ELSE "lbList"
    /\ UNCHANGED <<notRun, rFips, rLbs, rTagPc, rTagFip, crashes>>

(* createLoadBalancer: GET loadbalancers; an existing one is returned as is *)
RunLbList ==
    /\ scenario = "run"
    /\ rPc = "lbList"
    /\ rPc' = IF rLbs > 0 THEN "lbWait" ELSE "lbPost"
    /\ UNCHANGED <<notRun, rFips, rLbs, rFipId, rTagPc, rTagFip, crashes>>

(* createLoadBalancer: POST loadbalancers *)
RunLbPost ==
    /\ scenario = "run"
    /\ rPc = "lbPost"
    /\ rLbs' = rLbs + 1
    /\ rPc' = "asGet"
    /\ UNCHANGED <<notRun, rFips, rFipId, rTagPc, rTagFip, crashes>>

(* associateFloatingIPWithLoadBalancer: GET the load balancer (vip_port_id) *)
RunAsGet ==
    /\ scenario = "run"
    /\ rPc = "asGet"
    /\ rPc' = "asPut"
    /\ UNCHANGED <<notRun, rFips, rLbs, rFipId, rTagPc, rTagFip, crashes>>

(* associateFloatingIPWithLoadBalancer: PUT floatingips/<id> {port_id} *)
RunAsPut ==
    /\ scenario = "run"
    /\ rPc = "asPut"
    /\ rFips' = [rFips EXCEPT ![rFipId].port = TRUE]
    /\ rPc' = "lbWait"
    /\ UNCHANGED <<notRun, rLbs, rFipId, rTagPc, rTagFip, crashes>>

(* waitForLoadBalancerStatus(loadBalancer.id, 'ACTIVE'), the balancer being  *)
(* active at the first fetch                                                 *)
RunLbWait ==
    /\ scenario = "run"
    /\ rPc = "lbWait"
    /\ rPc' = "done"
    /\ UNCHANGED <<notRun, rFips, rLbs, rFipId, rTagPc, rTagFip, crashes>>

(* The process is terminated: everything it held in memory is lost, the      *)
(* pending tag call included; the remote objects stay as they are            *)
Crash ==
    /\ scenario = "run"
    /\ rPc \notin {"done", "failed", "crashed"}
    /\ crashes < MaxCrashes
    /\ crashes' = crashes + 1
    /\ rPc' = "crashed"
    /\ rFipId' = 0
    /\ rTagPc' = "none"
    /\ rTagFip' = 0
    /\ UNCHANGED <<notRun, rFips, rLbs>>

(* The installer is run again from the start with the same configuration *)
Restart ==
    /\ scenario = "run"
    /\ rPc = "crashed"
    /\ rPc' = "ipList"
    /\ UNCHANGED <<notRun, rFips, rLbs, rFipId, rTagPc, rTagFip, crashes>>

RunNext ==
    \/ RunIpList
    \/ RunIpNets
    \/ RunIpPost
    \/ RunTagGet
    \/ RunTagPut
    \/ RunTagReGet
    \/ RunLbNet
    \/ RunLbSubnets
    \/ RunLbFip
    \/ RunLbList
    \/ RunLbPost
    \/ RunAsGet
    \/ RunAsPut
    \/ RunLbWait
    \/ Crash
    \/ Restart

----------------------------------------------------------------------------
(* RancherController.getRegistrationToken and getKubeConfig: how each gets   *)
(* the v3 cluster id before the requests that are addressed to it            *)

(* rancher.js `retries < 5` in the nodeCommand loop of getRegistrationToken *)
TokenRetries == 5

BackidInit ==
    /\ bOp \in (IF scenario = "backid" THEN {"token", "kubeconfig"} ELSE {"token"})
    /\ bPopulated \in (IF scenario = "backid" THEN BOOLEAN ELSE {FALSE})
    /\ bListed \in (IF scenario = "backid" THEN {b \in BOOLEAN : bPopulated => b} ELSE {FALSE})
    /\ bProvided \in (IF scenario = "backid" /\ bOp = "token" /\ bPopulated
                      THEN BOOLEAN ELSE {FALSE})
    /\ bPc = "start"
    /\ bV3 = FALSE
    /\ bReads = 0
    /\ bBackReqs = 0
    /\ bToken = "none"
    /\ bRetries = 0
    /\ bResult = "none"
    /\ bLookupFailed = FALSE

(* Entry: `let v3ClusterId = providedV3ClusterId; if (!v3ClusterId) ...` *)
BackidCall ==
    /\ scenario = "backid"
    /\ bPc = "start"
    /\ bV3' = (bOp = "token" /\ bProvided)
    /\ bPc' = IF bOp = "token" /\ bProvided THEN "tokList" ELSE "getCluster"
    /\ UNCHANGED <<notBackid, bLookupFailed, bOp, bProvided, bPopulated, bListed, bReads, bBackReqs,
                   bToken, bRetries, bResult>>

(* `const v1Cluster = await this.getCluster(clusterId)`, read once;          *)
(* getKubeConfig throws when status.clusterName is missing,                  *)
(* getRegistrationToken goes on to search the v3 cluster list                *)
BackidGetCluster ==
    /\ scenario = "backid"
    /\ bPc = "getCluster"
    /\ \E answered \in BOOLEAN :
         IF ~answered
         THEN /\ bPc' = "done"
              /\ bResult' = "unavailable"
              /\ UNCHANGED <<bReads, bV3>>
         ELSE /\ bReads' = bReads + 1
              /\ bV3' = bPopulated
              /\ IF bPopulated
                 THEN /\ bPc' = IF bOp = "token" THEN "tokList" ELSE "kcPost"
                      /\ bResult' = bResult
                 ELSE IF bOp = "kubeconfig"
                 THEN /\ bPc' = "done"
                      /\ bResult' = "nobackid"
                 ELSE /\ bPc' = "v3list"
                      /\ bResult' = bResult
    /\ UNCHANGED <<notBackid, bLookupFailed, bOp, bProvided, bPopulated, bListed, bBackReqs, bToken,
                   bRetries>>

(* getRegistrationToken: GET /clusters, find by name; an error is logged *)
BackidV3List ==
    /\ scenario = "backid"
    /\ bPc = "v3list"
    /\ \E answered \in BOOLEAN :
         /\ bV3' = (answered /\ bListed)
         /\ bPc' = IF answered /\ bListed THEN "tokList" ELSE "byName"
    /\ UNCHANGED <<notBackid, bLookupFailed, bOp, bProvided, bPopulated, bListed, bReads, bBackReqs,
                   bToken, bRetries, bResult>>

(* getRegistrationToken: GET /clusters?name=, an error is logged; then       *)
(* `throw new Error('Could not determine v3 cluster ID for registration')`   *)
BackidByName ==
    /\ scenario = "backid"
    /\ bPc = "byName"
    /\ \E answered \in BOOLEAN :
         /\ bV3' = (answered /\ bListed)
         /\ IF answered /\ bListed
            THEN bPc' = "tokList" /\ bResult' = bResult
            ELSE bPc' = "done" /\ bResult' = "nobackid"
    /\ UNCHANGED <<notBackid, bLookupFailed, bOp, bProvided, bPopulated, bListed, bReads, bBackReqs,
                   bToken, bRetries>>

(* getRegistrationToken: GET /clusters/<v3>/clusterregistrationtokens; an    *)
(* error counts as no token                                                  *)
BackidTokList ==
    /\ scenario = "backid"
    /\ bPc = "tokList"
    /\ bBackReqs' = bBackReqs + 1
    /\ \E found \in {"none", "nocmd", "ready"}, answered \in BOOLEAN :
         /\ ~answered => found = "none"
         /\ bLookupFailed' = ~answered
         /\ bToken' = found
         /\ bPc' = CASE found = "none" -> "tokPost"
                     [] found = "nocmd" -> "tokWait"
                     [] OTHER -> "done"
         /\ bResult' = IF found = "ready" THEN "ok" ELSE bResult
    /\ UNCHANGED <<notBackid, bOp, bProvided, bPopulated, bListed, bV3, bReads, bRetries>>

(* getRegistrationToken: POST /clusterregistrationtokens {clusterId} *)
BackidTokPost ==
    /\ scenario = "backid"
    /\ bPc = "tokPost"
    /\ bBackReqs' = bBackReqs + 1
    /\ \E answer \in {"nocmd", "ready", "unavailable"} :
         /\ bToken' = IF answer = "unavailable" THEN bToken ELSE answer
         /\ bPc' = IF answer = "nocmd" THEN "tokWait" ELSE "done"
         /\ bResult' = CASE answer = "ready" -> "ok"
                         [] answer = "unavailable" -> "unavailable"
                         [] OTHER -> bResult
    /\ UNCHANGED <<notBackid, bLookupFailed, bOp, bProvided, bPopulated, bListed, bV3, bReads, bRetries>>

(* getRegistrationToken: one iteration of the nodeCommand loop (sleep 2 s,   *)
(* GET the token); after the last one                                        *)
(* `throw new Error('Failed to generate node registration command or token')` *)
BackidTokWait ==
    /\ scenario = "backid"
    /\ bPc = "tokWait"
    /\ bRetries < TokenRetries
    /\ \E answer \in {"nocmd", "ready", "unavailable"} :
         IF answer = "unavailable"
         THEN /\ bPc' = "done"
              /\ bResult' = "unavailable"
              /\ UNCHANGED <<bToken, bRetries>>
         ELSE /\ bToken' = answer
              /\ bRetries' = bRetries + 1
              /\ IF answer = "ready"
                 THEN bPc' = "done" /\ bResult' = "ok"
                 ELSE IF bRetries + 1 = TokenRetries
                 THEN bPc' = "done" /\ bResult' = "nocmd"
                 ELSE bPc' = "tokWait" /\ bResult' = bResult
    /\ UNCHANGED <<notBackid, bLookupFailed, bOp, bProvided, bPopulated, bListed, bV3, bReads, bBackReqs>>

(* getKubeConfig: POST /clusters/<v3>?action=generateKubeconfig *)
BackidKcPost ==
    /\ scenario = "backid"
    /\ bPc = "kcPost"
    /\ bBackReqs' = bBackReqs + 1
    /\ bPc' = "done"
    /\ bResult' \in {"ok", "noconfig", "unavailable"}
    /\ UNCHANGED <<notBackid, bLookupFailed, bOp, bProvided, bPopulated, bListed, bV3, bReads, bToken,
                   bRetries>>

(* Rancher creates the v3 cluster, then fills status.clusterName of the v1   *)
(* cluster                                                                   *)
BackidPlatform ==
    /\ scenario = "backid"
    /\ bPc # "done"
    /\ ~bPopulated
    /\ bListed' = TRUE
    /\ bPopulated' = bListed
    /\ UNCHANGED <<notBackid, bLookupFailed, bOp, bProvided, bPc, bV3, bReads, bBackReqs, bToken,
                   bRetries, bResult>>

BackidNext ==
    \/ BackidCall
    \/ BackidGetCluster
    \/ BackidV3List
    \/ BackidByName
    \/ BackidTokList
    \/ BackidTokPost
    \/ BackidTokWait
    \/ BackidKcPost
    \/ BackidPlatform

----------------------------------------------------------------------------
(* OpenStackController.createSecurityGroup, addMissingRules and              *)
(* addSecurityGroupRule, for rules that carry a remote_ip_prefix             *)

MaxSgCalls == 2

RuleA == [direction |-> "ingress", protocol |-> "tcp", port_range_min |-> 22,
          port_range_max |-> 22, remote_ip_prefix |-> "10.0.0.0/8"]

RuleB == [direction |-> "ingress", protocol |-> "tcp", port_range_min |-> 80,
          port_range_max |-> 80, remote_ip_prefix |-> "10.0.0.0/8"]

RuleC == [direction |-> "ingress", protocol |-> "tcp", port_range_min |-> 22,
          port_range_max |-> 22, remote_ip_prefix |-> "0.0.0.0/0"]

(* The rule lists of the configurations explored *)
SgConfigs == {<<RuleA, RuleB>>, <<RuleB, RuleA>>, <<RuleA, RuleC>>}

(* A comparison by direction and protocol alone *)
SameRuleLoosely(r, rule) ==
    r.direction = rule.direction /\ r.protocol = rule.protocol

(* addMissingRules: r.direction === rule.direction && r.protocol ===         *)
(* rule.protocol && r.port_range_min === ... && r.port_range_max === ...     *)
SameRule(r, rule) ==
    /\ r.direction = rule.direction
    /\ r.protocol = rule.protocol
    /\ r.port_range_min = rule.port_range_min
    /\ r.port_range_max = rule.port_range_max

(* existingRules.some(...) *)
RuleExists(existing, rule) == \E r \in existing : SameRule(r, rule)

SgInit ==
    /\ sgGroups = 0
    /\ sgRules = {}
    /\ sgCfg \in (IF scenario = "sg" THEN SgConfigs ELSE {<<RuleA, RuleB>>})
    /\ sgPc = "idle"
    /\ sgPath = "none"
    /\ sgSeen = {}
    /\ sgIdx = 0
    /\ sgGroupPosts = 0
    /\ sgRulePosts = <<>>
    /\ sgSwallowed = 0
    /\ sgResult = "none"
    /\ sgCalls = 0

(* A task calls createSecurityGroup(sgConfig) *)
SgCall ==
    /\ scenario = "sg"
    /\ sgPc \in {"idle", "done"}
    /\ sgCalls < MaxSgCalls
    /\ sgCalls' = sgCalls + 1
    /\ sgPc' = "list"
    /\ sgPath' = "none"
    /\ sgSeen' = {}
    /\ sgIdx' = 0
    /\ sgGroupPosts' = 0
    /\ sgRulePosts' = <<>>
    /\ sgSwallowed' = 0
    /\ sgResult' = "none"
    /\ UNCHANGED <<notSg, sgGroups, sgRules, sgCfg>>

(* createSecurityGroup: securityGroupsGet, find by name; an existing group   *)
(* goes to addMissingRules with the rules the list answer shows              *)
SgList ==
    /\ scenario = "sg"
    /\ sgPc = "list"
    /\ \E answered \in BOOLEAN :
         IF ~answered
         THEN /\ sgPc' = "done"
              /\ sgResult' = "unavailable"
              /\ UNCHANGED <<sgPath, sgSeen, sgIdx>>
         ELSE IF sgGroups > 0
         THEN /\ sgPath' = "existing"
              /\ sgSeen' = sgRules
              /\ sgIdx' = 1
              /\ sgPc' = "rules"
              /\ sgResult' = sgResult
         ELSE /\ sgPc' = "post"
              /\ UNCHANGED <<sgPath, sgSeen, sgIdx, sgResult>>
    /\ UNCHANGED <<notSg, sgGroups, sgRules, sgCfg, sgGroupPosts, sgRulePosts,
                   sgSwallowed, sgCalls>>

(* createSecurityGroup: securityGroupsPost; an error is logged and rethrown *)
SgPost ==
    /\ scenario = "sg"
    /\ sgPc = "post"
    /\ sgGroupPosts' = sgGroupPosts + 1
    /\ \E answered \in BOOLEAN :
         IF answered
         THEN /\ sgGroups' = sgGroups + 1
              /\ sgPath' = "create"
              /\ sgIdx' = 1
              /\ sgPc' = "rules"
              /\ sgResult' = sgResult
         ELSE /\ sgPc' = "done"
              /\ sgResult' = "unavailable"
              /\ UNCHANGED <<sgGroups, sgPath, sgIdx>>
    /\ UNCHANGED <<notSg, sgRules, sgCfg, sgSeen, sgRulePosts, sgSwallowed, sgCalls>>

(* One iteration of the rule loop of createSecurityGroup or addMissingRules: *)
(* addSecurityGroupRule posts the rule; it returns normally on 409, and any  *)
(* other error it throws is caught by the loop and logged                    *)
SgRule ==
    /\ scenario = "sg"
    /\ sgPc = "rules"
    /\ LET rule == sgCfg[sgIdx]
           skip == sgPath = "existing" /\ RuleExists(sgSeen, rule)
       IN  IF skip
           THEN UNCHANGED <<sgRules, sgRulePosts, sgSwallowed>>
           ELSE /\ sgRulePosts' = Append(sgRulePosts, rule)
                /\ \E answer \in {"created", "conflict", "error"} :
                     /\ answer = "created" => rule \notin sgRules
                     /\ answer = "conflict" => rule \in sgRules
                     /\ sgRules' = IF answer = "created" THEN sgRules \cup {rule}
                                   ELSE sgRules
                     /\ sgSwallowed' = IF answer = "error" THEN sgSwallowed + 1
                                       ELSE sgSwallowed
    /\ sgIdx' = sgIdx + 1
    /\ IF sgIdx = Len(sgCfg)
       THEN sgPc' = "done" /\ sgResult' = "ok"
       ELSE sgPc' = "rules" /\ sgResult' = sgResult
    /\ UNCHANGED <<notSg, sgGroups, sgCfg, sgPath, sgSeen, sgGroupPosts, sgCalls>>

SgNext ==
    \/ SgCall
    \/ SgList
    \/ SgPost
    \/ SgRule

----------------------------------------------------------------------------
(* OpenStackController.createSubnet, createVM (without a fixed IP),          *)
(* createVolume and createLoadBalancer (with a floating IP) called for a     *)
(* name that may already exist in the project                                *)

MaxReuseCalls == 2

ReuseKinds == {"subnet", "vm", "volume", "lb"}

(* The remote calls that follow the create request, in program order:        *)
(* createVM: waitForServerStatus, configureVMNetworking (portsGet,           *)
(* portsPutId), serversIdGet; createLoadBalancer:                            *)
(* associateFloatingIPWithLoadBalancer (GET, PUT)                            *)
AfterStep(kind, pc) ==
    CASE kind = "vm" /\ pc = "list" -> "images"
      [] kind = "vm" /\ pc = "images" -> "flavors"
      [] kind = "vm" /\ pc = "flavors" -> "post"
      [] kind = "vm" /\ pc = "post" -> "wait"
      [] kind = "vm" /\ pc = "wait" -> "ports"
      [] kind = "vm" /\ pc = "ports" -> "portPut"
      [] kind = "vm" /\ pc = "portPut" -> "get"
      [] kind = "lb" /\ pc = "post" -> "asGet"
      [] kind = "lb" /\ pc = "asGet" -> "asPut"
      [] pc = "list" -> "post"
      [] OTHER -> "done"

(* createVolume: `const volumes = this.getVolumes(...)` has no await, the    *)
(* other operations await their list request                                 *)
ListIsAwaited(kind) == kind # "volume"

ReuseInit ==
    /\ xKind \in (IF scenario = "reuse" THEN ReuseKinds ELSE {"subnet"})
    /\ xCount \in (IF scenario = "reuse" THEN {0, 1} ELSE {0})
    /\ xDrift \in (IF scenario = "reuse" /\ xCount = 1 THEN BOOLEAN ELSE {FALSE})
    /\ xPc = "idle"
    /\ xHad = FALSE
    /\ xWrites = 0
    /\ xResult = "none"
    /\ xPending = FALSE
    /\ xCalls = 0

(* A task calls the operation with its configuration *)
ReuseCall ==
    /\ scenario = "reuse"
    /\ xPc \in {"idle", "done"}
    /\ xCalls < MaxReuseCalls
    /\ xCalls' = xCalls + 1
    /\ xPc' = "list"
    /\ xHad' = (xCount > 0)
    /\ xWrites' = 0
    /\ xResult' = "none"
    /\ UNCHANGED <<notReuse, xKind, xCount, xDrift, xPending>>

(* The existence check: list, find by name, return the object found.         *)
(* createVolume reads `.length` of the promise, which is undefined, and      *)
(* goes on to the create request while its list request is in flight         *)
ReuseList ==
    /\ scenario = "reuse"
    /\ xPc = "list"
    /\ IF ~ListIsAwaited(xKind)
       THEN /\ xPending' = TRUE
            /\ xPc' = AfterStep(xKind, "list")
            /\ xResult' = xResult
       ELSE /\ xPending' = xPending
            /\ \E answered \in BOOLEAN :
                 IF ~answered
                 THEN xPc' = "done" /\ xResult' = "unavailable"
                 ELSE IF xCount > 0
                 THEN xPc' = "done" /\ xResult' = "existing"
                 ELSE xPc' = AfterStep(xKind, "list") /\ xResult' = xResult
    /\ UNCHANGED <<notReuse, xKind, xCount, xDrift, xHad, xWrites, xCalls>>

(* A read on the create path: imagesGet, flavorsGet, the status wait,        *)
(* portsGet (the VM may already sit on the right subnet), serversIdGet,      *)
(* GET of the load balancer                                                  *)
ReuseRead ==
    /\ scenario = "reuse"
    /\ xPc \in {"images", "flavors", "wait", "ports", "get", "asGet"}
    /\ \E answered \in BOOLEAN :
         IF ~answered
         THEN xPc' = "done" /\ xResult' = "unavailable"
         ELSE \E onSubnet \in BOOLEAN :
                LET next == IF xPc = "ports" /\ onSubnet THEN "get"
                            ELSE AfterStep(xKind, xPc)
                IN  /\ xPc # "ports" => onSubnet
                    /\ xPc' = next
                    /\ xResult' = IF next = "done" THEN "created" ELSE xResult
    /\ UNCHANGED <<notReuse, xKind, xCount, xDrift, xHad, xWrites, xPending, xCalls>>

(* The create request: subnetsPost, serversPost, POST volumes,               *)
(* POST loadbalancers                                                        *)
ReuseCreate ==
    /\ scenario = "reuse"
    /\ xPc = "post"
    /\ xWrites' = xWrites + 1
    /\ \E answered \in BOOLEAN :
         IF ~answered
         THEN /\ xPc' = "done"
              /\ xResult' = "unavailable"
              /\ xCount' = xCount
         ELSE /\ xCount' = xCount + 1
              /\ xPc' = AfterStep(xKind, "post")
              /\ xResult' = IF AfterStep(xKind, "post") = "done" THEN "created"
                            ELSE xResult
    /\ UNCHANGED <<notReuse, xKind, xDrift, xHad, xPending, xCalls>>

(* An update of the object just created: portsPutId, PUT floatingips *)
ReuseUpdate ==
    /\ scenario = "reuse"
    /\ xPc \in {"portPut", "asPut"}
    /\ xWrites' = xWrites + 1
    /\ \E answered \in BOOLEAN :
         IF ~answered
         THEN xPc' = "done" /\ xResult' = "unavailable"
         ELSE /\ xPc' = AfterStep(xKind, xPc)
              /\ xResult' = IF AfterStep(xKind, xPc) = "done" THEN "created" ELSE xResult
    /\ UNCHANGED <<notReuse, xKind, xCount, xDrift, xHad, xPending, xCalls>>

(* The list request that was not awaited is answered *)
ReuseLateAnswer ==
    /\ scenario = "reuse"
    /\ xPending
    /\ xPending' = FALSE
    /\ UNCHANGED <<notReuse, xKind, xCount, xDrift, xPc, xHad, xWrites, xResult, xCalls>>

ReuseNext ==
    \/ ReuseCall
    \/ ReuseList
    \/ ReuseRead
    \/ ReuseCreate
    \/ ReuseUpdate
    \/ ReuseLateAnswer

----------------------------------------------------------------------------
(* The run driver: main() of the entry script, and the run() of the tasks    *)
(* it executes                                                               *)

MaxFetchErrs == 2

(* The task files of src/tasks, sorted by name, by the number parseInt reads *)
(* from the part of the name before the first '-'                            *)
TaskNumbers == <<1, 2, 3, 4, 5, 6, 11, 12>>

(* main: `if (parseInt(task.name.split('-')[0]) > 10) await task.run(config)` *)
RunThreshold == 10

Executed(n) == n > RunThreshold

(* 11-certs run: initialize, deployHelm, the lookup of the ClusterIssuer in  *)
(* its own try/catch, createClusterCustomObject                              *)
CertsSteps == <<"call", "call", "lookup", "call">>

(* 12-keycloak run: initialize, CRDs, operator, database, TLS, instance,     *)
(* ingress, waitForKeycloakReady; with an admin section getAdminToken,       *)
(* createAdminUser, applyTheme and kubernetesController.rollout, a method    *)
(* the controller class does not define                                      *)
KeycloakSteps(admin) ==
    <<"call", "call", "call", "call", "call", "call", "call", "wait">>
        \o (IF admin THEN <<"call", "call", "call", "nomethod">> ELSE <<>>)

StepsOf(n, admin) == IF n = 11 THEN CertsSteps ELSE KeycloakSteps(admin)

(* What the catch around the lookup of 11-certs does with an error:          *)
(* `if (error.response && error.response.statusCode !== 404) throw error`    *)
LookupRethrows(answer) == answer = "refused"

DriverInit ==
    /\ dAdmin \in (IF scenario = "driver" THEN BOOLEAN ELSE {FALSE})
    /\ dPc = "load"
    /\ dIdx = 1
    /\ dStep = 0
    /\ dExit = -1
    /\ dCalls = 0
    /\ dFatal = FALSE
    /\ dAfter = 0
    /\ dLogged = FALSE
    /\ dFetchErrs = 0
    /\ dRan = {}

(* A remote call is started: counted, and counted apart once a fatal         *)
(* failure has occurred in the run                                           *)
Started ==
    /\ dCalls' = dCalls + 1
    /\ dAfter' = IF dFatal THEN dAfter + 1 ELSE dAfter

(* main: loadConfig and loadTasks, inside the try *)
DriverLoad ==
    /\ scenario = "driver"
    /\ dPc = "load"
    /\ \E ok \in BOOLEAN : dPc' = IF ok THEN "loop" ELSE "catch"
    /\ UNCHANGED <<notDriver, dRan, dAdmin, dIdx, dStep, dExit, dCalls, dFatal, dAfter,
                   dLogged, dFetchErrs>>

(* main: a task whose number is not above the threshold is logged as         *)
(* started and completed, its run is not called                              *)
DriverSkip ==
    /\ scenario = "driver"
    /\ dPc = "loop"
    /\ dIdx <= Len(TaskNumbers)
    /\ ~Executed(TaskNumbers[dIdx])
    /\ dIdx' = dIdx + 1
    /\ UNCHANGED <<notDriver, dRan, dAdmin, dPc, dStep, dExit, dCalls, dFatal, dAfter,
                   dLogged, dFetchErrs>>

(* main: `await task.run(config)` *)
DriverStart ==
    /\ scenario = "driver"
    /\ dPc = "loop"
    /\ dIdx <= Len(TaskNumbers)
    /\ Executed(TaskNumbers[dIdx])
    /\ dPc' = "task"
    /\ dStep' = 1
    /\ dFetchErrs' = 0
    /\ dRan' = dRan \cup {dIdx}
    /\ UNCHANGED <<notDriver, dAdmin, dIdx, dExit, dCalls, dFatal, dAfter, dLogged>>

(* The running task went through its last step: run returns, main logs the   *)
(* task as completed and takes the next one                                  *)
TaskReturn ==
    /\ scenario = "driver"
    /\ dPc = "task"
    /\ dStep > Len(StepsOf(TaskNumbers[dIdx], dAdmin))
    /\ dPc' = "loop"
    /\ dStep' = 0
    /\ dIdx' = dIdx + 1
    /\ UNCHANGED <<notDriver, dRan, dAdmin, dExit, dCalls, dFatal, dAfter, dLogged,
                   dFetchErrs>>

(* An awaited call of the task: its failure is logged by the catch of run    *)
(* and thrown again                                                          *)
TaskCall ==
    /\ scenario = "driver"
    /\ dPc = "task"
    /\ dStep <= Len(StepsOf(TaskNumbers[dIdx], dAdmin))
    /\ StepsOf(TaskNumbers[dIdx], dAdmin)[dStep] = "call"
    /\ Started
    /\ \E ok \in BOOLEAN :
         /\ dFatal' = (dFatal \/ ~ok)
         /\ dPc' = IF ok THEN "task" ELSE "catch"
         /\ dStep' = IF ok THEN dStep + 1 ELSE dStep
    /\ UNCHANGED <<notDriver, dRan, dAdmin, dIdx, dExit, dLogged, dFetchErrs>>

(* 11-certs: getClusterCustomObject. An issuer found ends the task; a 404    *)
(* goes on to the create; of the other errors only one that carries a        *)
(* response is thrown again ("refused": 401/403/5xx answer; "unreachable":   *)
(* timeout or refused connection, no response)                               *)
TaskLookup ==
    /\ scenario = "driver"
    /\ dPc = "task"
    /\ dStep <= Len(StepsOf(TaskNumbers[dIdx], dAdmin))
    /\ StepsOf(TaskNumbers[dIdx], dAdmin)[dStep] = "lookup"
    /\ Started
    /\ \E answer \in {"found", "absent", "refused", "unreachable"} :
         /\ dFatal' = (dFatal \/ answer \in {"refused", "unreachable"})
         /\ dPc' = IF answer \in {"refused", "unreachable"} /\ LookupRethrows(answer)
                   THEN "catch" ELSE "task"
         /\ dStep' = CASE answer = "found" ->
                            Len(StepsOf(TaskNumbers[dIdx], dAdmin)) + 1
                       [] answer = "refused" /\ LookupRethrows(answer) -> dStep
                       [] OTHER -> dStep + 1
    /\ UNCHANGED <<notDriver, dRan, dAdmin, dIdx, dExit, dLogged, dFetchErrs>>

(* 12-keycloak: one iteration of waitForResource under waitForKeycloakReady. *)
(* Ready returns true; the timeout returns false and run throws 'Timeout     *)
(* waiting for Keycloak to be ready'; a fetch error is logged and the loop   *)
(* goes on                                                                   *)
TaskWait ==
    /\ scenario = "driver"
    /\ dPc = "task"
    /\ dStep <= Len(StepsOf(TaskNumbers[dIdx], dAdmin))
    /\ StepsOf(TaskNumbers[dIdx], dAdmin)[dStep] = "wait"
    /\ \E answer \in {"ready", "timeout", "error"} :
         /\ answer = "error" => dFetchErrs < MaxFetchErrs
         /\ IF answer = "timeout"
            THEN UNCHANGED <<dCalls, dAfter>>
            ELSE Started
         /\ dFatal' = (dFatal \/ answer # "ready")
         /\ dFetchErrs' = IF answer = "error" THEN dFetchErrs + 1 ELSE dFetchErrs
         /\ dPc' = IF answer = "timeout" THEN "catch" ELSE "task"
         /\ dStep' = IF answer = "ready" THEN dStep + 1 ELSE dStep
    /\ UNCHANGED <<notDriver, dRan, dAdmin, dIdx, dExit, dLogged>>

(* 12-keycloak: `await kubernetesController.rollout(...)`: not a function,   *)
(* the TypeError is thrown before any request                                *)
TaskNoMethod ==
    /\ scenario = "driver"
    /\ dPc = "task"
    /\ dStep <= Len(StepsOf(TaskNumbers[dIdx], dAdmin))
    /\ StepsOf(TaskNumbers[dIdx], dAdmin)[dStep] = "nomethod"
    /\ dPc' = "catch"
    /\ UNCHANGED <<notDriver, dRan, dAdmin, dIdx, dStep, dExit, dCalls, dFatal, dAfter,
                   dLogged, dFetchErrs>>

(* main: the catch logs 'Installation failed' and calls process.exit(1) *)
DriverCatch ==
    /\ scenario = "driver"
    /\ dPc = "catch"
    /\ dLogged' = TRUE
    /\ dExit' = 1
    /\ dPc' = "exited"
    /\ UNCHANGED <<notDriver, dRan, dAdmin, dIdx, dStep, dCalls, dFatal, dAfter, dFetchErrs>>

(* main: after the last task, process.exit(0) *)
DriverExitOk ==
    /\ scenario = "driver"
    /\ dPc = "loop"
    /\ dIdx > Len(TaskNumbers)
    /\ dExit' = 0
    /\ dPc' = "exited"
    /\ UNCHANGED <<notDriver, dRan, dAdmin, dIdx, dStep, dCalls, dFatal, dAfter, dLogged,
                   dFetchErrs>>

DriverNext ==
    \/ DriverLoad
    \/ DriverSkip
    \/ DriverStart
    \/ TaskReturn
    \/ TaskCall
    \/ TaskLookup
    \/ TaskWait
    \/ TaskNoMethod
    \/ DriverCatch
    \/ DriverExitOk

----------------------------------------------------------------------------
(* The creation calls of the OpenStack tasks in the order of a run: the run  *)
(* functions of 01-network, 02-securityGroups, 03-ips, the storage VM task   *)
(* of 04-dns.js, 05-rancher and the load balancer task, called one after     *)
(* the other in the order loadTasks gives them                               *)

ResourceKinds == {"network", "subnet", "router", "sg", "volume", "vm", "fip",
                  "lb", "listener", "pool", "monitor", "member"}

(* Place of each kind in the documented sequence network, subnet, router,    *)
(* security group, compute/storage, floating IP, load balancer, pool, member *)
Rank(kind) ==
    CASE kind = "network" -> 1
      [] kind = "subnet" -> 2
      [] kind = "router" -> 3
      [] kind = "sg" -> 4
      [] kind \in {"volume", "vm"} -> 5
      [] kind = "fip" -> 6
      [] kind \in {"lb", "listener"} -> 7
      [] kind \in {"pool", "monitor"} -> 8
      [] OTHER -> 9

(* What the creation request of each kind is given: ids returned by earlier  *)
(* calls of the same run function                                            *)
Deps(kind) ==
    CASE kind = "subnet" -> {"network"}
      [] kind = "router" -> {"subnet"}
      [] kind = "vm" -> {"network", "subnet", "sg"}
      [] kind = "lb" -> {"network", "subnet", "fip"}
      [] kind = "listener" -> {"lb"}
      [] kind = "pool" -> {"lb", "listener"}
      [] kind = "monitor" -> {"lb", "pool"}
      [] kind = "member" -> {"lb", "pool", "subnet", "vm"}
      [] OTHER -> {}

(* 01-network run: createNetwork, createSubnet, createRouter *)
NetworkTask == << <<"create", "network">>, <<"create", "subnet">>,
                  <<"create", "router">> >>

(* 02-securityGroups run: createSecurityGroup inside a try/catch that logs *)
SecurityGroupsTask == << <<"trycreate", "sg">> >>

(* 03-ips run: createFloatingIP *)
IpsTask == << <<"create", "fip">> >>

(* storage VM run: getNetwork, createSecurityGroup, subnet lookup,           *)
(* getVolumes/createVolume, createVM                                         *)
StorageTask == << <<"resolve", "network">>, <<"create", "sg">>,
                  <<"resolve", "subnet">>, <<"create", "volume">>,
                  <<"create", "vm">> >>

(* 05-rancher run: getNetwork, createSecurityGroup, subnet lookup, createVM, *)
(* getFloatingIP                                                             *)
RancherTask == << <<"resolve", "network">>, <<"create", "sg">>,
                  <<"resolve", "subnet">>, <<"create", "vm">>,
                  <<"resolve", "fip">> >>

(* load balancer run: getNetwork, subnet lookup, getFloatingIP,              *)
(* createLoadBalancer, listener, pool, health monitor, the workers found by  *)
(* serversGet (none: the task ends), addPoolMember                           *)
LoadBalancerTask == << <<"resolve", "network">>, <<"resolve", "subnet">>,
                       <<"resolve", "fip">>, <<"create", "lb">>,
                       <<"create", "listener">>, <<"create", "pool">>,
                       <<"create", "monitor">>, <<"find", "vm">>,
                       <<"create", "member">> >>

NumberedTasks == <<NetworkTask, SecurityGroupsTask, IpsTask, StorageTask, RancherTask>>

(* loadTasks: the task files sorted by name. The file name of the load       *)
(* balancer task is not part of the tree, so its place in the sort is open   *)
TaskOrder(lbPos) ==
    SubSeq(NumberedTasks, 1, lbPos - 1) \o <<LoadBalancerTask>>
        \o SubSeq(NumberedTasks, lbPos, Len(NumberedTasks))

(* A lookup that accepts a missing object *)
ResolveNeverThrows(kind, made) == FALSE

(* getNetwork, getFloatingIP and the subnet lookups of the tasks throw       *)
(* '... not found' when the list holds no object of the name                 *)
ResolveThrows(kind, made) == kind \notin made

OrderInit ==
    /\ oLbPos \in (IF scenario = "order" THEN 1..(Len(NumberedTasks) + 1) ELSE {1})
    /\ oIdx = 1
    /\ oStep = 1
    /\ oPc = "run"
    /\ oMade \in (IF scenario = "order"
                  THEN {{}, {"network", "subnet", "router"}} ELSE {{}})
    /\ oMaxRank = 0
    /\ oUnordered = FALSE
    /\ oEarly = FALSE
    /\ oPosts = 0

CurrentTask == TaskOrder(oLbPos)[oIdx]

(* The position after the current step: the next step of the task, or the    *)
(* first step of the next task, or the end of the run                        *)
Advance(toEnd) ==
    IF toEnd \/ oStep = Len(CurrentTask)
    THEN /\ oStep' = 1
         /\ oIdx' = oIdx + 1
         /\ oPc' = IF oIdx = Len(NumberedTasks) + 1 THEN "done" ELSE "run"
    ELSE /\ oStep' = oStep + 1
         /\ oIdx' = oIdx
         /\ oPc' = "run"

(* The creation request of a kind is issued *)
Issue(kind) ==
    /\ oPosts' = oPosts + 1
    /\ oMaxRank' = IF Rank(kind) > oMaxRank THEN Rank(kind) ELSE oMaxRank
    /\ oUnordered' = (oUnordered \/ Rank(kind) < oMaxRank)
    /\ oEarly' = (oEarly \/ ~(Deps(kind) \subseteq oMade))

(* create<Kind>: the existence check returns the object found; otherwise the *)
(* creation request is issued, and its failure ends the run, except under    *)
(* the try/catch of 02-securityGroups                                        *)
OrderCreate ==
    /\ scenario = "order"
    /\ oPc = "run"
    /\ CurrentTask[oStep][1] \in {"create", "trycreate"}
    /\ LET kind == CurrentTask[oStep][2]
       IN  IF kind \in oMade
           THEN /\ Advance(FALSE)
                /\ UNCHANGED <<oMade, oMaxRank, oUnordered, oEarly, oPosts>>
           ELSE /\ Issue(kind)
                /\ \E ok \in BOOLEAN :
                     IF ok
                     THEN oMade' = oMade \cup {kind} /\ Advance(FALSE)
                     ELSE /\ oMade' = oMade
                          /\ IF CurrentTask[oStep][1] = "trycreate"
                             THEN Advance(FALSE)
                             ELSE oPc' = "failed" /\ UNCHANGED <<oIdx, oStep>>
    /\ UNCHANGED <<notOrder, oLbPos>>

(* getNetwork, getFloatingIP, subnetsGet and find: a missing object is an    *)
(* error thrown to the driver                                                *)
OrderResolve ==
    /\ scenario = "order"
    /\ oPc = "run"
    /\ CurrentTask[oStep][1] = "resolve"
    /\ IF ResolveThrows(CurrentTask[oStep][2], oMade)
       THEN oPc' = "failed" /\ UNCHANGED <<oIdx, oStep>>
       ELSE Advance(FALSE)
    /\ UNCHANGED <<notOrder, oLbPos, oMade, oMaxRank, oUnordered, oEarly, oPosts>>

(* load balancer run: serversGet and the filter on role 'worker'; with no    *)
(* worker the task logs a warning and returns                                *)
OrderFind ==
    /\ scenario = "order"
    /\ oPc = "run"
    /\ CurrentTask[oStep][1] = "find"
    /\ Advance(CurrentTask[oStep][2] \notin oMade)
    /\ UNCHANGED <<notOrder, oLbPos, oMade, oMaxRank, oUnordered, oEarly, oPosts>>

OrderNext ==
    \/ OrderCreate
    \/ OrderResolve
    \/ OrderFind

----------------------------------------------------------------------------
(* The existence check by name: createVM of the controller class             *)
(* (serversGet, find by ===), createVM of controllers/openstack.js           *)
(* (serversGet({name}), servers[0]) and the volume lookup of the storage     *)
(* task (getVolumes({name}), existingVolumes[0])                             *)

MaxMatchCalls == 2

(* Names are character sequences *)
ObjectNames == { <<"n", "1">>, <<"n", "1", "0">>, <<"x", "n", "1">> }

Contains(s, p) == \E i \in 1..(Len(s) - Len(p) + 1) : SubSeq(s, i, i + Len(p) - 1) = p

(* GET /servers?name=: the compute service matches the value as a pattern    *)
(* anywhere in the name                                                      *)
ServerNameFilter(store, name) == {s \in store : Contains(s, name)}

(* GET /volumes/detail?name=: the volume service matches the whole name *)
VolumeNameFilter(store, name) == {s \in store : s = name}

(* The objects the lookup may return as the existing one *)
Candidates(impl, store, name) ==
    CASE impl = "class" -> {s \in store : s = name}
      [] impl = "module" -> ServerNameFilter(store, name)
      [] OTHER -> VolumeNameFilter(store, name)

MatchInit ==
    /\ mImpl \in (IF scenario = "match" THEN {"class", "module", "volume"} ELSE {"class"})
    /\ mStore \in (IF scenario = "match" THEN SUBSET ObjectNames ELSE {{}})
    /\ mName = <<>>
    /\ mPc = "idle"
    /\ mGot = <<>>
    /\ mCalls = 0

(* A task calls createVM, or looks a volume up, for a configured name *)
MatchCall ==
    /\ scenario = "match"
    /\ mPc \in {"idle", "done"}
    /\ mCalls < MaxMatchCalls
    /\ mCalls' = mCalls + 1
    /\ mName' \in ObjectNames
    /\ mPc' = "list"
    /\ mGot' = <<>>
    /\ UNCHANGED <<notMatch, mImpl, mStore>>

(* The list request and the choice of the existing object: the element       *)
(* found by name, or the first element of the filtered answer, whose order   *)
(* is the service's                                                          *)
MatchList ==
    /\ scenario = "match"
    /\ mPc = "list"
    /\ IF Candidates(mImpl, mStore, mName) = {}
       THEN mPc' = "post" /\ mGot' = mGot
       ELSE mPc' = "done" /\ mGot' \in Candidates(mImpl, mStore, mName)
    /\ UNCHANGED <<notMatch, mImpl, mStore, mName, mCalls>>

(* Nothing found: the object is created under the name asked for *)
MatchPost ==
    /\ scenario = "match"
    /\ mPc = "post"
    /\ mPc' = "done"
    /\ \E answered \in BOOLEAN :
         mStore' = IF answered THEN mStore \cup {mName} ELSE mStore
    /\ UNCHANGED <<notMatch, mImpl, mName, mGot, mCalls>>

MatchNext ==
    \/ MatchCall
    \/ MatchList
    \/ MatchPost

----------------------------------------------------------------------------
(* OpenStackController.createVM called with vmConfig.ip: the port of the     *)
(* fixed IP is looked up, reused or created, then the server is created on   *)
(* it; a failure after the port request leaves the port in the project       *)

MaxVmCalls == 3

VmIp == "10.0.0.5"

(* The detection of a port that finds none *)
NoPortWithIp(ports, ip) == {}

(* existingPortsResponse.data.ports.filter(port => port.fixed_ips.some(      *)
(* fixedIp => fixedIp.ip_address === vmConfig.ip))                           *)
PortsWithIp(ports, ip) == {i \in 1..Len(ports) : ports[i].ip = ip}

VmportInit ==
    /\ vPorts \in (IF scenario = "vmport"
                   THEN {<<>>,
                         <<[ip |-> "10.0.0.9", status |-> "DOWN", server |-> FALSE]>>,
                         <<[ip |-> VmIp, status |-> "ACTIVE", server |-> FALSE]>>}
                   ELSE {<<>>})
    /\ vServer = FALSE
    /\ vPc = "idle"
    /\ vPort = 0
    /\ vResult = "none"
    /\ vOrphaned = FALSE
    /\ vCalls = 0

(* A request of createVM failed: the catch logs and rethrows; a port that    *)
(* the call created or took over stays as it is                              *)
VmFails(result) ==
    /\ vPc' = "done"
    /\ vResult' = result
    /\ vOrphaned' = (vOrphaned \/ (vPort # 0 /\ ~vServer))

(* A task calls createVM with the same descriptor *)
VmCall ==
    /\ scenario = "vmport"
    /\ vPc \in {"idle", "done"}
    /\ vCalls < MaxVmCalls
    /\ vCalls' = vCalls + 1
    /\ vPc' = "servers"
    /\ vPort' = 0
    /\ vResult' = "none"
    /\ UNCHANGED <<notVmport, vPorts, vServer, vOrphaned>>

(* serversGet and find by name, imagesGet, flavorsGet *)
VmRead ==
    /\ scenario = "vmport"
    /\ vPc \in {"servers", "images", "flavors"}
    /\ \E answered \in BOOLEAN :
         IF ~answered
         THEN VmFails("unavailable")
         ELSE /\ vOrphaned' = vOrphaned
              /\ IF vPc = "servers" /\ vServer
                 THEN vPc' = "done" /\ vResult' = "existing"
                 ELSE /\ vResult' = vResult
                      /\ vPc' = CASE vPc = "servers" -> "images"
                                  [] vPc = "images" -> "flavors"
                                  [] OTHER -> "ports"
    /\ UNCHANGED <<notVmport, vPorts, vServer, vPort, vCalls>>

(* portsGet and the filter on the fixed IP: an ACTIVE port is in use, any    *)
(* other port found is taken over, none found leads to portsPost             *)
VmPorts ==
    /\ scenario = "vmport"
    /\ vPc = "ports"
    /\ \E answered \in BOOLEAN :
         IF ~answered
         THEN VmFails("unavailable") /\ vPort' = vPort
         ELSE LET found == PortsWithIp(vPorts, VmIp)
              IN  IF found = {}
                  THEN /\ vPc' = "portPost"
                       /\ UNCHANGED <<vPort, vResult, vOrphaned>>
                  ELSE IF vPorts[Min(found)].status = "ACTIVE"
                  THEN /\ vPc' = "done"
                       /\ vResult' = "inuse"
                       /\ UNCHANGED <<vPort, vOrphaned>>
                  ELSE /\ vPc' = "portPut"
                       /\ vPort' = Min(found)
                       /\ UNCHANGED <<vResult, vOrphaned>>
    /\ UNCHANGED <<notVmport, vPorts, vServer, vCalls>>

(* portsPortIdPut: the security groups of the port found are set again *)
VmPortPut ==
    /\ scenario = "vmport"
    /\ vPc = "portPut"
    /\ \E answered \in BOOLEAN :
         IF ~answered
         THEN VmFails("unavailable")
         ELSE vPc' = "serverPost" /\ UNCHANGED <<vResult, vOrphaned>>
    /\ UNCHANGED <<notVmport, vPorts, vServer, vPort, vCalls>>

(* portsPost: a port with the fixed IP is created, unbound *)
VmPortPost ==
    /\ scenario = "vmport"
    /\ vPc = "portPost"
    /\ \E answered \in BOOLEAN :
         IF ~answered
         THEN VmFails("unavailable") /\ UNCHANGED <<vPorts, vPort>>
         ELSE /\ vPorts' = Append(vPorts,
                    [ip |-> VmIp, status |-> "DOWN", server |-> FALSE])
              /\ vPort' = Len(vPorts) + 1
              /\ vPc' = "serverPost"
              /\ UNCHANGED <<vResult, vOrphaned>>
    /\ UNCHANGED <<notVmport, vServer, vCalls>>

(* serversPost with networks: [{ port }]: the server is created on the port, *)
(* which the platform binds to it                                            *)
VmServerPost ==
    /\ scenario = "vmport"
    /\ vPc = "serverPost"
    /\ \E answered \in BOOLEAN :
         IF ~answered
         THEN VmFails("unavailable") /\ UNCHANGED <<vPorts, vServer>>
         ELSE /\ vServer' = TRUE
              /\ vPorts' = [vPorts EXCEPT ![vPort] =
                                [@ EXCEPT !.status = "ACTIVE", !.server = TRUE]]
              /\ vPc' = "wait"
              /\ UNCHANGED <<vResult, vOrphaned>>
    /\ UNCHANGED <<notVmport, vPort, vCalls>>

(* deleteVM: the catch takes an error for 'already absent' when its body     *)
(* has a NeutronError whose message includes 'Resource not found'            *)
NotFoundBenign(body) == body = "NeutronError"

(* The body of the 404 the compute service answers to serversIdDelete for a  *)
(* server that does not exist                                                *)
ComputeNotFoundBody == "itemNotFound"

(* deleteVM(serverId): serversIdDelete. The port created apart from the      *)
(* server is unbound, not deleted, with it                                   *)
VmDelete ==
    /\ scenario = "vmport"
    /\ vPc \in {"idle", "done"}
    /\ vCalls < MaxVmCalls
    /\ vCalls' = vCalls + 1
    /\ vPc' = "done"
    /\ vPort' = 0
    /\ \E answered \in BOOLEAN :
         IF ~answered
         THEN vResult' = "unavailable" /\ UNCHANGED <<vPorts, vServer>>
         ELSE IF vServer
         THEN /\ vResult' = "deleted"
              /\ vServer' = FALSE
              /\ vPorts' = [i \in 1..Len(vPorts) |->
                              IF vPorts[i].server
                              THEN [vPorts[i] EXCEPT !.status = "DOWN", !.server = FALSE]
                              ELSE vPorts[i]]
         ELSE /\ vResult' = IF NotFoundBenign(ComputeNotFoundBody)
                            THEN "absent" ELSE "notfound"
              /\ UNCHANGED <<vPorts, vServer>>
    /\ UNCHANGED <<notVmport, vOrphaned>>

(* waitForServerStatus(server.id, 'ACTIVE') and serversIdGet *)
VmFinish ==
    /\ scenario = "vmport"
    /\ vPc \in {"wait", "get"}
    /\ \E answered \in BOOLEAN :
         IF ~answered
         THEN VmFails("unavailable")
         ELSE /\ vPc' = IF vPc = "wait" THEN "get" ELSE "done"
              /\ vResult' = IF vPc = "get" THEN "created" ELSE vResult
              /\ vOrphaned' = vOrphaned
    /\ UNCHANGED <<notVmport, vPorts, vServer, vPort, vCalls>>

VmportNext ==
    \/ VmCall
    \/ VmRead
    \/ VmPorts
    \/ VmPortPut
    \/ VmPortPost
    \/ VmServerPost
    \/ VmFinish
    \/ VmDelete

----------------------------------------------------------------------------
(* createNodes of the cluster task: for each node createNode (createVM,      *)
(* waitForServerStatus ACTIVE), then a sleep before the next node            *)

MaxNodes == 3

MaxBoot == 2

(* createNodes: `setTimeout(resolve, 5000)`, in seconds *)
NodeDelaySec == 5

(* A loop that goes to the next node at once *)
NoDelay(i, count) == 0

(* `if (i < count - 1) await new Promise(resolve => setTimeout(resolve, 5000))` *)
InterNodeDelay(i, count) == IF i < count - 1 THEN NodeDelaySec ELSE 0

NodesInit ==
    /\ nCount \in (IF scenario = "nodes" THEN 1..MaxNodes ELSE {1})
    /\ nI = 0
    /\ nPc = "create"
    /\ nNow = 0
    /\ nWake = 0
    /\ nPostAt = <<>>
    /\ nActiveAt = <<>>

(* createNode: createVM sends the create request of node i + 1 *)
NodeCreate ==
    /\ scenario = "nodes"
    /\ nPc = "create"
    /\ nPostAt' = Append(nPostAt, nNow)
    /\ \E answered \in BOOLEAN :
         /\ nPc' = IF answered THEN "wait" ELSE "failed"
         /\ nWake' = IF answered THEN nNow + MaxBoot ELSE nWake
    /\ UNCHANGED <<notNodes, nCount, nI, nNow, nActiveAt>>

(* createNode: waitForServerStatus(createdVM.id, 'ACTIVE') returns; the loop *)
(* pushes the node and sleeps unless it was the last                         *)
NodeActive ==
    /\ scenario = "nodes"
    /\ nPc = "wait"
    /\ nActiveAt' = Append(nActiveAt, nNow)
    /\ IF InterNodeDelay(nI, nCount) = 0 /\ nI + 1 >= nCount
       THEN nPc' = "done" /\ UNCHANGED <<nI, nWake>>
       ELSE /\ nPc' = "sleep"
            /\ nWake' = nNow + InterNodeDelay(nI, nCount)
            /\ nI' = nI
    /\ UNCHANGED <<notNodes, nCount, nNow, nPostAt>>

(* The timer has fired: i++ and the next iteration *)
NodeWake ==
    /\ scenario = "nodes"
    /\ nPc = "sleep"
    /\ nNow >= nWake
    /\ nI' = nI + 1
    /\ nPc' = IF nI + 1 < nCount THEN "create" ELSE "done"
    /\ UNCHANGED <<notNodes, nCount, nNow, nWake, nPostAt, nActiveAt>>

(* One second passes while the server boots or the loop sleeps; a timer may  *)
(* fire late                                                                 *)
NodeTick ==
    /\ scenario = "nodes"
    /\ \/ nPc = "wait" /\ nNow < nWake
       \/ nPc = "sleep" /\ nNow < nWake + MaxLat
    /\ nNow' = nNow + 1
    /\ UNCHANGED <<notNodes, nCount, nI, nPc, nWake, nPostAt, nActiveAt>>

NodesNext ==
    \/ NodeCreate
    \/ NodeActive
    \/ NodeWake
    \/ NodeTick

----------------------------------------------------------------------------
(* The places that read an object which may not exist, and what each makes   *)
(* of the error the client throws.  An error is [code, status]: `code` is    *)
(* error.code, `status` is error.response.statusCode, 0 when the error has   *)
(* no such field.  The client throws errors with the status in one of the    *)
(* two fields, or in neither (a connection error).                           *)

NotFoundHandlers == {"createOrUpdateResource", "deleteResource", "waitForResource",
                     "getResource", "postgresRun"}

ClientErrors == {[code |-> 404, status |-> 0], [code |-> 0, status |-> 404],
                 [code |-> 500, status |-> 0], [code |-> 0, status |-> 500],
                 [code |-> 0, status |-> 0]}

IsNotFoundResponse(e) == e.code = 404 \/ e.status = 404

(* createOrUpdateResource: `if (error.code && error.code === 404)` *)
UpsertNotFound(e) == e.code # 0 /\ e.code = 404

(* deleteResource: `if (error.response && error.response.statusCode === 404)` *)
DeleteNotFound(e) == e.status # 0 /\ e.status = 404

(* waitForResource: `if (error.response && error.response.statusCode === 404)` *)
WaitNotFound(e) == e.status # 0 /\ e.status = 404

(* 12-keycloak.js getResource: `if (error.code === 404) return null` *)
GetResourceNotFound(e) == e.code = 404

(* PostgreSQL task: `if (error.response && error.response.statusCode !== 404)  *)
(* throw error`, anything else goes on to the create                         *)
PostgresRethrows(e) == e.status # 0 /\ e.status # 404

NotfoundInit ==
    /\ nfErr \in (IF scenario = "notfound" THEN ClientErrors
                  ELSE {[code |-> 0, status |-> 0]})
    /\ nfOut = [h \in NotFoundHandlers |-> "none"]

(* createOrUpdateResource: the read throws; 404 goes on to create *)
NfUpsert ==
    /\ scenario = "notfound"
    /\ nfOut["createOrUpdateResource"] = "none"
    /\ nfOut' = [nfOut EXCEPT !["createOrUpdateResource"] =
                    IF UpsertNotFound(nfErr) THEN "absent" ELSE "rethrown"]
    /\ UNCHANGED <<notNotfound, nfErr>>

(* deleteResource: the delete throws; 404 returns action 'not_found' *)
NfDelete ==
    /\ scenario = "notfound"
    /\ nfOut["deleteResource"] = "none"
    /\ nfOut' = [nfOut EXCEPT !["deleteResource"] =
                    IF DeleteNotFound(nfErr) THEN "absent" ELSE "rethrown"]
    /\ UNCHANGED <<notNotfound, nfErr>>

(* waitForResource: the read throws; both branches only log and wait on *)
NfWait ==
    /\ scenario = "notfound"
    /\ nfOut["waitForResource"] = "none"
    /\ nfOut' = [nfOut EXCEPT !["waitForResource"] =
                    IF WaitNotFound(nfErr) THEN "absent" ELSE "warned"]
    /\ UNCHANGED <<notNotfound, nfErr>>

(* 12-keycloak.js getResource: 404 returns null, anything else is rethrown *)
NfGetResource ==
    /\ scenario = "notfound"
    /\ nfOut["getResource"] = "none"
    /\ nfOut' = [nfOut EXCEPT !["getResource"] =
                    IF GetResourceNotFound(nfErr) THEN "absent" ELSE "rethrown"]
    /\ UNCHANGED <<notNotfound, nfErr>>

(* PostgreSQL task run: the existence check of the cluster *)
NfPostgres ==
    /\ scenario = "notfound"
    /\ nfOut["postgresRun"] = "none"
    /\ nfOut' = [nfOut EXCEPT !["postgresRun"] =
                    IF PostgresRethrows(nfErr) THEN "rethrown" ELSE "absent"]
    /\ UNCHANGED <<notNotfound, nfErr>>

NotfoundNext ==
    \/ NfUpsert
    \/ NfDelete
    \/ NfWait
    \/ NfGetResource
    \/ NfPostgres

----------------------------------------------------------------------------
(* The load balancer task after createLoadBalancer: it waits for the load    *)
(* balancer to be ACTIVE, then calls createLoadBalancerListener,             *)
(* createLoadBalancerPool, createHealthMonitor and addPoolMember in turn.    *)
(* Each of them lists, returns what it finds, and otherwise waits for        *)
(* ACTIVE, posts, and waits for ACTIVE again.  Octavia puts the load         *)
(* balancer in PENDING_UPDATE while it applies a change.                     *)

MaxLbPolls == 2

LbStatuses == {"ACTIVE", "PENDING_UPDATE", "ERROR"}

(* The calls of the task, in the order of its code *)
PartSeq == <<"http-listener", "https-listener", "http-pool", "https-pool",
             "http-monitor", "https-monitor", "member-80", "member-443">>

Prefix(k) == {PartSeq[i] : i \in 1..k}

(* A wait that would take any status for the target *)
AnyStatusReached(st, target) == TRUE

(* waitForLoadBalancerStatus: `loadBalancer.provisioning_status === targetStatus` *)
StatusReached(st, target) == st = target

LbpartsInit ==
    /\ lbStatus \in (IF scenario = "lbparts" THEN LbStatuses ELSE {"ACTIVE"})
    /\ lParts \in (IF scenario = "lbparts" THEN {Prefix(k) : k \in 0..Len(PartSeq)}
                   ELSE {{}})
    /\ lIdx = 1
    /\ lPc = "taskWait"
    /\ lSeen = "none"
    /\ lPolls = 0
    /\ lRet = "none"
    /\ lEnv = 0

(* Where the program goes when a wait has found the target *)
AfterWait(pc, idx) ==
    CASE pc = "taskWait" -> "list"
      [] pc = "waitBefore" -> "post"
      [] OTHER -> IF idx < Len(PartSeq) THEN "list" ELSE "done"

(* waitForLoadBalancerStatus: one GET of the load balancer; the target       *)
(* returns, anything else sleeps 5 s and fetches again                       *)
LbPoll ==
    /\ scenario = "lbparts"
    /\ lPc \in {"taskWait", "waitBefore", "waitAfter"}
    /\ lPolls < MaxLbPolls
    /\ lSeen' = lbStatus
    /\ IF StatusReached(lbStatus, "ACTIVE")
       THEN /\ lPc' = AfterWait(lPc, lIdx)
            /\ lIdx' = IF lPc = "waitAfter" THEN lIdx + 1 ELSE lIdx
            /\ lRet' = IF lPc = "waitAfter" THEN lbStatus ELSE lRet
            /\ lPolls' = IF lPc = "waitBefore" THEN lPolls ELSE 0
       ELSE /\ lPolls' = lPolls + 1
            /\ UNCHANGED <<lPc, lIdx, lRet>>
    /\ UNCHANGED <<notLbparts, lbStatus, lParts, lEnv>>

(* waitForLoadBalancerStatus: the loop ends, `Timeout waiting for load       *)
(* balancer to reach status` is thrown up to the task                        *)
LbTimeout ==
    /\ scenario = "lbparts"
    /\ lPc \in {"taskWait", "waitBefore", "waitAfter"}
    /\ lPolls = MaxLbPolls
    /\ lPc' = "failed"
    /\ lSeen' = "none"
    /\ UNCHANGED <<notLbparts, lbStatus, lParts, lIdx, lPolls, lRet, lEnv>>

(* create...: GET the list; a part found by name (a member by address and    *)
(* port) is returned as it is                                                *)
LbList ==
    /\ scenario = "lbparts"
    /\ lPc = "list"
    /\ lSeen' = "none"
    /\ lPolls' = 0
    /\ IF PartSeq[lIdx] \in lParts
       THEN /\ lIdx' = lIdx + 1
            /\ lPc' = IF lIdx < Len(PartSeq) THEN "list" ELSE "done"
       ELSE /\ lPc' = "waitBefore"
            /\ lIdx' = lIdx
    /\ UNCHANGED <<notLbparts, lbStatus, lParts, lRet, lEnv>>

(* create...: POST the part; the load balancer leaves ACTIVE while the       *)
(* change is applied                                                         *)
LbPost ==
    /\ scenario = "lbparts"
    /\ lPc = "post"
    /\ lParts' = lParts \cup {PartSeq[lIdx]}
    /\ lbStatus' = "PENDING_UPDATE"
    /\ lPc' = "waitAfter"
    /\ lSeen' = "none"
    /\ lPolls' = 0
    /\ UNCHANGED <<notLbparts, lIdx, lRet, lEnv>>

(* Octavia finishes applying a change, or fails to *)
LbSettle ==
    /\ scenario = "lbparts"
    /\ lbStatus = "PENDING_UPDATE"
    /\ lbStatus' \in {"ACTIVE", "ERROR"}
    /\ UNCHANGED <<notLbparts, lParts, lIdx, lPc, lSeen, lPolls, lRet, lEnv>>

(* Another client or the platform starts a change of the load balancer *)
LbEnvChange ==
    /\ scenario = "lbparts"
    /\ lbStatus = "ACTIVE"
    /\ lPc \notin {"done", "failed"}
    /\ lEnv < MaxEnv
    /\ lEnv' = lEnv + 1
    /\ lbStatus' = "PENDING_UPDATE"
    /\ UNCHANGED <<notLbparts, lParts, lIdx, lPc, lSeen, lPolls, lRet>>

LbpartsNext ==
    \/ LbPoll
    \/ LbTimeout
    \/ LbList
    \/ LbPost
    \/ LbSettle
    \/ LbEnvChange

----------------------------------------------------------------------------
(* The storage VM task (second module of 04-dns.js).  The initialization VM  *)
(* and the storage server use the same fixed IP and the same boot volume.    *)
(* The task reads the boot volume; unless it is marked configured it creates *)
(* the initialization VM, waits for the operator, marks the volume, deletes  *)
(* the VM and waits for it to be gone; then it posts the storage server.     *)
(* The process can be terminated between two remote calls and run again.     *)

StorageInit ==
    /\ tBootCfg = FALSE
    /\ tInit = "none"
    /\ tServer = FALSE
    /\ tPc = "volumes"
    /\ tIsCfg = FALSE
    /\ tEarly = FALSE
    /\ tCrashes = 0

(* getVolumes({name: <storage>-boot}) and the test of metadata.status *)
StVolumes ==
    /\ scenario = "storage"
    /\ tPc = "volumes"
    /\ tIsCfg' = tBootCfg
    /\ tPc' = IF tBootCfg THEN "port" ELSE "initCreate"
    /\ UNCHANGED <<notStorage, tBootCfg, tInit, tServer, tEarly, tCrashes>>

(* createVM(initServerData): the VM found by name is reused, else posted,    *)
(* then waitForServerStatus ACTIVE                                           *)
StInitCreate ==
    /\ scenario = "storage"
    /\ tPc = "initCreate"
    /\ tInit' = IF tInit = "none" THEN "active" ELSE tInit
    /\ tPc' = "initAttach"
    /\ UNCHANGED <<notStorage, tBootCfg, tServer, tIsCfg, tEarly, tCrashes>>

(* attachVolumeToServer of the boot and of the data volume, then the prompt  *)
(* for the operator's confirmation                                           *)
StInitAttach ==
    /\ scenario = "storage"
    /\ tPc = "initAttach"
    /\ tPc' = "mark"
    /\ UNCHANGED <<notStorage, tBootCfg, tInit, tServer, tIsCfg, tEarly, tCrashes>>

(* after the operator's confirmation: updateVolume, status 'configured' *)
StMark ==
    /\ scenario = "storage"
    /\ tPc = "mark"
    /\ tBootCfg' = TRUE
    /\ tPc' = "initDelete"
    /\ UNCHANGED <<notStorage, tInit, tServer, tIsCfg, tEarly, tCrashes>>

(* deleteVM(initServer.id): the request is accepted, or fails and is rethrown *)
StInitDelete ==
    /\ scenario = "storage"
    /\ tPc = "initDelete"
    /\ \E ok \in BOOLEAN :
         /\ tInit' = IF ok /\ tInit = "active" THEN "deleting" ELSE tInit
         /\ tPc' = IF ok THEN "initWait" ELSE "failed"
    /\ UNCHANGED <<notStorage, tBootCfg, tServer, tIsCfg, tEarly, tCrashes>>

(* waitForServerStatus(initServer.id, 'ABSENT'): returns when the server is  *)
(* not found, throws when the time is out                                    *)
StInitWait ==
    /\ scenario = "storage"
    /\ tPc = "initWait"
    /\ \/ tInit = "none" /\ tPc' = "port"
       \/ tInit # "none" /\ tPc' = "failed"
    /\ UNCHANGED <<notStorage, tBootCfg, tInit, tServer, tIsCfg, tEarly, tCrashes>>

(* Nova finishes the deletion of the initialization VM *)
StInitGone ==
    /\ scenario = "storage"
    /\ tInit = "deleting"
    /\ tInit' = "none"
    /\ UNCHANGED <<notStorage, tBootCfg, tServer, tPc, tIsCfg, tEarly, tCrashes>>

(* set bootable, then portsGet: the port holding the fixed IP is reused,     *)
(* else a port is posted                                                     *)
StPort ==
    /\ scenario = "storage"
    /\ tPc = "port"
    /\ tPc' = "serverList"
    /\ UNCHANGED <<notStorage, tBootCfg, tInit, tServer, tIsCfg, tEarly, tCrashes>>

(* GET servers: a server with the configured name is reused *)
StServerList ==
    /\ scenario = "storage"
    /\ tPc = "serverList"
    /\ tPc' = IF tServer THEN "done" ELSE "serverPost"
    /\ UNCHANGED <<notStorage, tBootCfg, tInit, tServer, tIsCfg, tEarly, tCrashes>>

(* POST servers: the storage server, booting from the boot volume *)
StServerPost ==
    /\ scenario = "storage"
    /\ tPc = "serverPost"
    /\ tServer' = TRUE
    /\ tEarly' = (tEarly \/ tInit # "none")
    /\ tPc' = "done"
    /\ UNCHANGED <<notStorage, tBootCfg, tInit, tIsCfg, tCrashes>>

(* The process is terminated; the remote objects stay as they are *)
StCrash ==
    /\ scenario = "storage"
    /\ tPc \notin {"done", "failed", "stopped"}
    /\ tCrashes < MaxCrashes
    /\ tCrashes' = tCrashes + 1
    /\ tPc' = "stopped"
    /\ UNCHANGED <<notStorage, tBootCfg, tInit, tServer, tIsCfg, tEarly>>

(* The installer is run again after a termination or a failure *)
StRestart ==
    /\ scenario = "storage"
    /\ tPc \in {"stopped", "failed"}
    /\ tPc' = "volumes"
    /\ tIsCfg' = FALSE
    /\ UNCHANGED <<notStorage, tBootCfg, tInit, tServer, tEarly, tCrashes>>

StorageNext ==
    \/ StVolumes
    \/ StInitCreate
    \/ StInitAttach
    \/ StMark
    \/ StInitDelete
    \/ StInitWait
    \/ StInitGone
    \/ StPort
    \/ StServerList
    \/ StServerPost
    \/ StCrash
    \/ StRestart

----------------------------------------------------------------------------
(* attachVolumeToServer(volumeId, serverId): GET the volume, return it when  *)
(* it is attached to the server; else waitForVolumeStatus 'available', POST  *)
(* os-volume_attachments, waitForVolumeStatus 'in-use'.  The storage task    *)
(* calls it for the boot volume, then for the data volume.  Cinder moves a   *)
(* volume through creating, available, attaching and in-use.                 *)

MaxVolPolls == 2

(* The volumes the task attaches, in the order of its calls *)
VolumeSeq == <<"boot", "data">>

Volumes == {VolumeSeq[i] : i \in 1..Len(VolumeSeq)}

AttachInit ==
    /\ aStatus \in (IF scenario = "attach"
                    THEN [Volumes -> {"creating", "available", "in-use"}]
                    ELSE [Volumes -> {"available"}])
    /\ aAtt \in [Volumes -> {{}, {"this"}, {"other"}}]
    /\ \A v \in Volumes : aAtt[v] # {} <=> aStatus[v] = "in-use"
    /\ aCur = 1
    /\ aPc = "get"
    /\ aSeen = "none"
    /\ aPolls = 0
    /\ aPosts = [v \in Volumes |-> 0]
    /\ aHadAtt = [v \in Volumes |-> FALSE]
    /\ aRet = [v \in Volumes |-> "none"]

(* The volume of the running call *)
CurVol == VolumeSeq[aCur]

(* GET volume/v3/volumes/<id>; attachments.find(a => a.server_id === id):    *)
(* an attached volume is returned, the task goes on to its next call         *)
AtGet ==
    /\ scenario = "attach"
    /\ aPc = "get"
    /\ aHadAtt' = [aHadAtt EXCEPT ![CurVol] = ("this" \in aAtt[CurVol])]
    /\ IF "this" \in aAtt[CurVol]
       THEN /\ aPc' = IF aCur < Len(VolumeSeq) THEN "get" ELSE "done"
            /\ aCur' = IF aCur < Len(VolumeSeq) THEN aCur + 1 ELSE aCur
       ELSE /\ aPc' = "waitAvail"
            /\ aCur' = aCur
    /\ UNCHANGED <<notAttach, aStatus, aAtt, aSeen, aPolls, aPosts, aRet>>

(* waitForVolumeStatus: one getVolumeById; the target returns, anything else *)
(* sleeps 5 s and fetches again                                              *)
AtPoll ==
    /\ scenario = "attach"
    /\ aPc \in {"waitAvail", "waitInUse"}
    /\ aPolls < MaxVolPolls
    /\ aSeen' = aStatus[CurVol]
    /\ IF Satisfies("volume", IF aPc = "waitAvail" THEN "available" ELSE "in-use",
                    aStatus[CurVol])
       THEN IF aPc = "waitAvail"
            THEN /\ aPc' = "post"
                 /\ UNCHANGED <<aRet, aPolls, aCur>>
            ELSE /\ aRet' = [aRet EXCEPT ![CurVol] = aStatus[CurVol]]
                 /\ aPc' = IF aCur < Len(VolumeSeq) THEN "get" ELSE "done"
                 /\ aCur' = IF aCur < Len(VolumeSeq) THEN aCur + 1 ELSE aCur
                 /\ aPolls' = 0
       ELSE /\ aPolls' = aPolls + 1
            /\ UNCHANGED <<aPc, aRet, aCur>>
    /\ UNCHANGED <<notAttach, aStatus, aAtt, aPosts, aHadAtt>>

(* waitForVolumeStatus: the loop ends and the timeout error is thrown *)
AtTimeout ==
    /\ scenario = "attach"
    /\ aPc \in {"waitAvail", "waitInUse"}
    /\ aPolls = MaxVolPolls
    /\ aPc' = "failed"
    /\ aSeen' = "none"
    /\ UNCHANGED <<notAttach, aStatus, aAtt, aCur, aPolls, aPosts, aHadAtt, aRet>>

(* POST servers/<id>/os-volume_attachments: accepted, or refused and rethrown *)
AtPost ==
    /\ scenario = "attach"
    /\ aPc = "post"
    /\ aPosts' = [aPosts EXCEPT ![CurVol] = @ + 1]
    /\ aSeen' = "none"
    /\ aPolls' = 0
    /\ \E ok \in BOOLEAN :
         /\ aPc' = IF ok THEN "waitInUse" ELSE "failed"
         /\ aStatus' = IF ok /\ aStatus[CurVol] = "available"
                       THEN [aStatus EXCEPT ![CurVol] = "attaching"]
                       ELSE aStatus
    /\ UNCHANGED <<notAttach, aAtt, aCur, aHadAtt, aRet>>

(* Cinder: a volume being created becomes available; an attachment under    *)
(* way completes or is given up; another server releases the volume          *)
VolSettle ==
    /\ scenario = "attach"
    /\ \E v \in Volumes :
         \/ /\ aStatus[v] = "creating"
            /\ aStatus' = [aStatus EXCEPT ![v] = "available"]
            /\ aAtt' = aAtt
         \/ /\ aStatus[v] = "attaching"
            /\ aStatus' = [aStatus EXCEPT ![v] = "in-use"]
            /\ aAtt' = [aAtt EXCEPT ![v] = {"this"}]
         \/ /\ aStatus[v] = "attaching"
            /\ aStatus' = [aStatus EXCEPT ![v] = "available"]
            /\ aAtt' = aAtt
         \/ /\ aStatus[v] = "in-use"
            /\ aAtt[v] = {"other"}
            /\ aStatus' = [aStatus EXCEPT ![v] = "available"]
            /\ aAtt' = [aAtt EXCEPT ![v] = {}]
    /\ UNCHANGED <<notAttach, aCur, aPc, aSeen, aPolls, aPosts, aHadAtt, aRet>>

AttachNext ==
    \/ AtGet
    \/ AtPoll
    \/ AtTimeout
    \/ AtPost
    \/ VolSettle

----------------------------------------------------------------------------
(* createRouter(routerConfig, subnetIds): routersGet and find by name; a     *)
(* missing router is posted with the external network as gateway; then one   *)
(* add_router_interface request per subnet.  The router and some of its      *)
(* interfaces may be left from an earlier run.                               *)

MaxRouterCalls == 2

(* subnets.map((subnet) => subnet.id), in the order of the configuration *)
SubnetIds == <<"subnet-a", "subnet-b", "subnet-c">>

(* What Neutron answers to add_router_interface: done, or an error with a    *)
(* NeutronError message, or no answer at all                                 *)
AttachAnswers == {"ok", "Router already has a port on subnet",
                  "IP address already allocated in subnet", "no response"}

(* A catch that would take every error as an existing interface *)
EveryErrorMeansAttached(answer) == TRUE

(* `message && message.includes('Router already has')` *)
MeansAlreadyAttached(answer) == answer = "Router already has a port on subnet"

RouterInit ==
    /\ rtExists \in (IF scenario = "router" THEN BOOLEAN ELSE {FALSE})
    /\ rtAttached \in (IF rtExists
                       THEN SUBSET {SubnetIds[i] : i \in 1..Len(SubnetIds)}
                       ELSE {{}})
    /\ rtPc = "idle"
    /\ rtIdx = 0
    /\ rtResult = "none"
    /\ rtPuts = 0
    /\ rtPosts = 0
    /\ rtCalls = 0

(* The network task calls createRouter *)
RtCall ==
    /\ scenario = "router"
    /\ rtPc \in {"idle", "done"}
    /\ rtCalls < MaxRouterCalls
    /\ rtCalls' = rtCalls + 1
    /\ rtPc' = "list"
    /\ rtIdx' = 0
    /\ rtResult' = "none"
    /\ rtPuts' = 0
    /\ rtPosts' = 0
    /\ UNCHANGED <<notRouter, rtExists, rtAttached>>

(* routersGet, routers.find((r) => r.name === routerConfig.name) *)
RtList ==
    /\ scenario = "router"
    /\ rtPc = "list"
    /\ \E answered \in BOOLEAN :
         IF ~answered
         THEN rtPc' = "done" /\ rtResult' = "failed" /\ rtIdx' = rtIdx
         ELSE /\ rtResult' = rtResult
              /\ rtPc' = IF rtExists THEN "attach" ELSE "extnet"
              /\ rtIdx' = IF rtExists THEN 1 ELSE rtIdx
    /\ UNCHANGED <<notRouter, rtExists, rtAttached, rtPuts, rtPosts, rtCalls>>

(* getExternalNetworkId: throws when the project sees no external network *)
RtExtNet ==
    /\ scenario = "router"
    /\ rtPc = "extnet"
    /\ \E found \in BOOLEAN :
         /\ rtPc' = IF found THEN "post" ELSE "done"
         /\ rtResult' = IF found THEN rtResult ELSE "failed"
    /\ UNCHANGED <<notRouter, rtExists, rtAttached, rtIdx, rtPuts, rtPosts, rtCalls>>

(* routersPost: the new router has no interface *)
RtPost ==
    /\ scenario = "router"
    /\ rtPc = "post"
    /\ rtPosts' = rtPosts + 1
    /\ \E answered \in BOOLEAN :
         IF answered
         THEN rtExists' = TRUE /\ rtPc' = "attach" /\ rtIdx' = 1 /\ rtResult' = rtResult
         ELSE rtExists' = rtExists /\ rtPc' = "done" /\ rtIdx' = rtIdx
              /\ rtResult' = "failed"
    /\ UNCHANGED <<notRouter, rtAttached, rtPuts, rtCalls>>

(* One iteration of the loop over subnetIds: routersIdAddRouterInterfacePut; *)
(* the 'Router already has' error is logged, any other error is rethrown     *)
RtAttach ==
    /\ scenario = "router"
    /\ rtPc = "attach"
    /\ rtPuts' = rtPuts + 1
    /\ \E answer \in AttachAnswers :
         /\ answer = "ok" => SubnetIds[rtIdx] \notin rtAttached
         /\ answer = "Router already has a port on subnet"
                => SubnetIds[rtIdx] \in rtAttached
         /\ answer = "IP address already allocated in subnet"
                => SubnetIds[rtIdx] \notin rtAttached
         /\ rtAttached' = IF answer = "ok" THEN rtAttached \cup {SubnetIds[rtIdx]}
                          ELSE rtAttached
         /\ IF answer = "ok" \/ MeansAlreadyAttached(answer)
            THEN /\ rtIdx' = rtIdx + 1
                 /\ rtPc' = IF rtIdx = Len(SubnetIds) THEN "done" ELSE "attach"
                 /\ rtResult' = IF rtIdx = Len(SubnetIds) THEN "ok" ELSE rtResult
            ELSE /\ rtPc' = "done"
                 /\ rtResult' = "failed"
                 /\ rtIdx' = rtIdx
    /\ UNCHANGED <<notRouter, rtExists, rtPosts, rtCalls>>

RouterNext ==
    \/ RtCall
    \/ RtList
    \/ RtExtNet
    \/ RtPost
    \/ RtAttach

----------------------------------------------------------------------------
(* tasks/02-securityGroups.js.  First pass: createSecurityGroup for every    *)
(* configured group with the rules that name no remote group.  Second pass:  *)
(* for every configured group found by name, addSecurityGroupRule for the    *)
(* rules that name a remote group.  Errors are caught and logged per group   *)
(* and per rule.  The first two groups of the configuration explored refer   *)
(* to each other, so one reference is to a group defined later.              *)

GroupSeq == <<"web", "db", "bastion">>

GroupNames == {GroupSeq[i] : i \in 1..Len(GroupSeq)}

(* sgConfig.rules; remote is the value of rule.remote_group, "none" without  *)
ConfigRules(g) ==
    CASE g = "web" -> <<[id |-> "web-ssh", remote |-> "none"],
                        [id |-> "web-from-db", remote |-> "db"]>>
      [] g = "db" -> <<[id |-> "db-from-web", remote |-> "web"],
                       [id |-> "db-pg", remote |-> "none"]>>
      [] OTHER -> <<[id |-> "bastion-ssh", remote |-> "none"]>>

HasNoRemote(rule) == rule.remote = "none"

HasRemote(rule) == rule.remote # "none"

(* A first pass that would hand every rule to createSecurityGroup *)
UnfilteredRules(g) == ConfigRules(g)

(* sgConfig.rules.filter((rule) => !rule.remote_group) *)
FirstPassRules(g) == SelectSeq(ConfigRules(g), HasNoRemote)

(* sgConfig.rules.filter((rule) => rule.remote_group) *)
GroupRules(g) == SelectSeq(ConfigRules(g), HasRemote)

(* addSecurityGroupRule: groups.find((g) => g.name === rule.remote_group);   *)
(* a rule without remote group needs no lookup                               *)
Resolves(rule, groups) == rule.remote = "none" \/ rule.remote \in groups

SgtaskInit ==
    /\ gExists \in (IF scenario = "sgtask" THEN SUBSET GroupNames ELSE {{}})
    /\ gAttempted = {}
    /\ gPass = 1
    /\ gIdx = 1
    /\ gStep = 0
    /\ gLog = {}

(* The entry logged for a rule handed to addSecurityGroupRule *)
Submission(rule, answered) ==
    [id |-> rule.id, remote |-> rule.remote, pass |-> gPass, attempted |-> gAttempted,
     existing |-> gExists, resolved |-> Resolves(rule, gExists),
     posted |-> (Resolves(rule, gExists) /\ answered)]

(* The loop of the running pass takes the next group, or the pass ends *)
NextGroup ==
    /\ gStep' = 0
    /\ IF gIdx < Len(GroupSeq)
       THEN gIdx' = gIdx + 1 /\ gPass' = gPass
       ELSE gIdx' = 1 /\ gPass' = gPass + 1

(* The rule loop of the running call goes on with `rules`, or the call ends *)
NextRule(rules) ==
    IF gStep < Len(rules)
    THEN gStep' = gStep + 1 /\ UNCHANGED <<gIdx, gPass>>
    ELSE NextGroup

(* First pass: createSecurityGroup(firstPassConfig) finds or posts the       *)
(* group; an error is caught by the loop of the task and logged              *)
GtCreate ==
    /\ scenario = "sgtask"
    /\ gPass = 1
    /\ gStep = 0
    /\ gAttempted' = gAttempted \cup {GroupSeq[gIdx]}
    /\ \E ok \in BOOLEAN :
         /\ ok \/ GroupSeq[gIdx] \notin gExists
         /\ gExists' = IF ok THEN gExists \cup {GroupSeq[gIdx]} ELSE gExists
         /\ IF ok THEN NextRule(FirstPassRules(GroupSeq[gIdx])) ELSE NextGroup
    /\ UNCHANGED <<notSgtask, gLog>>

(* First pass: createSecurityGroup hands a rule of firstPassConfig to        *)
(* addSecurityGroupRule; the rule is posted, or the request fails and the    *)
(* error is caught and logged                                                *)
GtRule ==
    /\ scenario = "sgtask"
    /\ gPass = 1
    /\ gStep > 0
    /\ \E answered \in BOOLEAN :
         gLog' = gLog \cup {Submission(FirstPassRules(GroupSeq[gIdx])[gStep], answered)}
    /\ NextRule(FirstPassRules(GroupSeq[gIdx]))
    /\ UNCHANGED <<notSgtask, gExists, gAttempted>>

(* Second pass: securityGroupsGet and find by name; a group that is not      *)
(* found, or a failed request, leaves the rules of the group aside           *)
GtFind ==
    /\ scenario = "sgtask"
    /\ gPass = 2
    /\ gStep = 0
    /\ \E answered \in BOOLEAN :
         IF answered /\ GroupSeq[gIdx] \in gExists
         THEN NextRule(GroupRules(GroupSeq[gIdx]))
         ELSE NextGroup
    /\ UNCHANGED <<notSgtask, gExists, gAttempted, gLog>>

(* Second pass: addSecurityGroupRule(securityGroup.id, rule) for a rule that *)
(* names a remote group: the group is looked up by name and the rule posted; *)
(* 'Referenced security group not found' and request errors are caught       *)
GtRefRule ==
    /\ scenario = "sgtask"
    /\ gPass = 2
    /\ gStep > 0
    /\ \E answered \in BOOLEAN :
         gLog' = gLog \cup {Submission(GroupRules(GroupSeq[gIdx])[gStep], answered)}
    /\ NextRule(GroupRules(GroupSeq[gIdx]))
    /\ UNCHANGED <<notSgtask, gExists, gAttempted>>

SgtaskNext ==
    \/ GtCreate
    \/ GtRule
    \/ GtFind
    \/ GtRefRule

----------------------------------------------------------------------------
Scenarios == {"ensure", "fip", "upsert", "poll", "run", "backid", "sg", "reuse", "driver", "order", "match", "vmport", "nodes", "notfound", "lbparts", "storage", "attach", "router", "sgtask"}

Init ==
    /\ scenario \in Scenarios
    /\ EnsureInit
    /\ FipInit
    /\ UpsertInit
    /\ PollInit
    /\ RunInit
    /\ BackidInit
    /\ SgInit
    /\ ReuseInit
    /\ DriverInit
    /\ OrderInit
    /\ MatchInit
    /\ VmportInit
    /\ NodesInit
    /\ NotfoundInit
    /\ LbpartsInit
    /\ StorageInit
    /\ AttachInit
    /\ RouterInit
    /\ SgtaskInit

Next ==
    \/ EnsureNext
    \/ FipNext
    \/ UpsertNext
    \/ PollNext
    \/ RunNext
    \/ BackidNext
    \/ SgNext
    \/ ReuseNext
    \/ DriverNext
    \/ OrderNext
    \/ MatchNext
    \/ VmportNext
    \/ NodesNext
    \/ NotfoundNext
    \/ LbpartsNext
    \/ StorageNext
    \/ AttachNext
    \/ RouterNext
    \/ SgtaskNext

Spec == Init /\ [][Next]_vars

InitEnsure == Init /\ scenario = "ensure"

SpecEnsure == InitEnsure /\ [][EnsureNext]_vars

InitFip == Init /\ scenario = "fip"

SpecFip == InitFip /\ [][FipNext]_vars

InitUpsert == Init /\ scenario = "upsert"

SpecUpsert == InitUpsert /\ [][UpsertNext]_vars

InitPoll == Init /\ scenario = "poll"

SpecPoll == InitPoll /\ [][PollNext]_vars

InitRun == Init /\ scenario = "run"

SpecRun == InitRun /\ [][RunNext]_vars

InitBackid == Init /\ scenario = "backid"

SpecBackid == InitBackid /\ [][BackidNext]_vars

InitSg == Init /\ scenario = "sg"

SpecSg == InitSg /\ [][SgNext]_vars

InitReuse == Init /\ scenario = "reuse"

SpecReuse == InitReuse /\ [][ReuseNext]_vars

InitDriver == Init /\ scenario = "driver"

SpecDriver == InitDriver /\ [][DriverNext]_vars

InitOrder == Init /\ scenario = "order"

SpecOrder == InitOrder /\ [][OrderNext]_vars

InitMatch == Init /\ scenario = "match"

SpecMatch == InitMatch /\ [][MatchNext]_vars

InitVmport == Init /\ scenario = "vmport"

SpecVmport == InitVmport /\ [][VmportNext]_vars

InitNodes == Init /\ scenario = "nodes"

SpecNodes == InitNodes /\ [][NodesNext]_vars

InitNotfound == Init /\ scenario = "notfound"

SpecNotfound == InitNotfound /\ [][NotfoundNext]_vars

InitLbparts == Init /\ scenario = "lbparts"

SpecLbparts == InitLbparts /\ [][LbpartsNext]_vars

InitStorage == Init /\ scenario = "storage"

SpecStorage == InitStorage /\ [][StorageNext]_vars

InitAttach == Init /\ scenario = "attach"

SpecAttach == InitAttach /\ [][AttachNext]_vars

InitRouter == Init /\ scenario = "router"

SpecRouter == InitRouter /\ [][RouterNext]_vars

InitSgtask == Init /\ scenario = "sgtask"

SpecSgtask == InitSgtask /\ [][SgtaskNext]_vars
----------------------------------------------------------------------------
(* Properties *)

C2_ConflictTolerated ==
    (scenario = "ensure" /\ ePc = "done") => eResult.kind # "conflict"

(* C3: a run that follows a process termination completes and leaves one     *)
(* floating IP and one load balancer for the configured names, the floating  *)
(* IP tagged and associated with the load balancer.                          *)
C3_RerunSafe ==
    (scenario = "run" /\ crashes > 0 /\ rPc \in {"done", "failed"} /\ rTagPc = "none") =>
        /\ rPc = "done"
        /\ Len(rFips) = 1
        /\ rFips[1].tagged
        /\ rFips[1].port
        /\ rLbs = 1

(* C4: at most one floating IP is allocated per logical name and at most one  *)
(* floating IP holds the tag name:<logical-name>.                            *)
C4_OneFipPerName ==
    \A n \in FipNames :
        /\ Cardinality({i \in 1..Len(fipStore) : fipStore[i].createdFor = n}) <= 1
        /\ Cardinality({i \in 1..Len(fipStore) : NameTag(n) \in fipStore[i].tags}) <= 1

(* C5: a floating IP resolved for logical name X carries the exact tag        *)
(* name:X; a floating IP tagged name:XY only is not returned for X.          *)
C5_ExactTag ==
    (scenario = "fip" /\ fPc = "done" /\ fResult.found)
        => NameTag(fName) \in fipStore[fResult.id].tags

C5_Witness ==
    /\ scenario = "fip"
    /\ fPc = "done"
    /\ fOp = "get"
    /\ fName = <<"x">>
    /\ fResult.kind = "notfound"
    /\ \E i \in 1..Len(fipStore) : NameTag(<<"x", "y">>) \in fipStore[i].tags

(* C6: every replace request of the upsert carries the version token read     *)
(* during the same invocation.                                               *)
C6_ReplaceCarriesToken ==
    (scenario = "upsert" /\ uReq.type = "replace")
        => (uReq.token # 0 /\ uReq.token = uReadRv)

(* C7: when the cluster rejects the replace because the token is stale, the   *)
(* upsert ends with that rejection, having issued one read and one replace.  *)
C7_RejectionSurfaced ==
    (scenario = "upsert" /\ uResult.kind = "conflict" /\ uReq.type = "replace")
        => (uPc = "done" /\ uReads = 1 /\ uWrites = 1)

C7_Witness ==
    /\ scenario = "upsert"
    /\ uPc = "done"
    /\ uResult.kind = "conflict"
    /\ uReq.type = "replace"
    /\ uRead = "found"
    /\ uReq.token = uReadRv
    /\ kExt > 0
    /\ kRv # uReadRv

C9_SuccessBeforeTimeout ==
    (scenario = "poll" /\ pPc = "done" /\ ~pFetchErr /\ trueSince # -1 /\ trueSince < pEnd)
        => pResult = "ok"

(* C9 (amended): a poller whose predicate becomes true more than one         *)
(* interval and one fetch latency before the timeout elapses, and stays      *)
(* true, returns success within one interval and two fetch latencies of that *)
(* moment, provided no fetch raises an error.                                *)
C9_SuccessWithMargin ==
    (scenario = "poll" /\ ~pFetchErr /\ trueSince # -1
                       /\ trueSince + pInterval + MaxLat < pEnd)
        => /\ pPc = "done" => (pResult = "ok" /\ pDoneAt <= trueSince + pInterval + 2 * MaxLat)
           /\ pPc # "done" => now <= trueSince + pInterval + 2 * MaxLat

C9_Witness ==
    /\ scenario = "poll"
    /\ pPc = "done"
    /\ pResult = "ok"
    /\ ~pFetchErr
    /\ trueSince > 0
    /\ trueSince + pInterval + MaxLat < pEnd
    /\ pDoneAt > trueSince

C11_PendingRaised ==
    (scenario = "ensure" /\ eOp = "cluster" /\ ePc = "done" /\ eTries = BackRefRetries)
        => eResult.kind # "ok"

(* C12: getRegistrationToken and getKubeConfig address a request to the v3   *)
(* cluster id only once they hold it, and give up for lack of it only after  *)
(* reading the cluster as many times as the retry budget allows.             *)
C12_BridgeBeforeUse ==
    scenario = "backid" =>
        /\ bBackReqs > 0 => bV3
        /\ (bPc = "done" /\ bResult = "nobackid") => bReads = BackRefRetries

(* C13: a second createSecurityGroup that finds the group holding rule R1    *)
(* but not R2 (R1 and R2 differing in direction, protocol or port range)     *)
(* creates no group, sends no create for R1 and sends exactly one rule       *)
(* create, for R2.                                                           *)
C13_OnlyMissingRule ==
    (/\ scenario = "sg"
     /\ sgCalls = 2
     /\ sgPc = "done"
     /\ sgPath = "existing"
     /\ sgSeen = {sgCfg[1]}
     /\ <<sgCfg[1].direction, sgCfg[1].protocol, sgCfg[1].port_range_min,
          sgCfg[1].port_range_max>>
            # <<sgCfg[2].direction, sgCfg[2].protocol, sgCfg[2].port_range_min,
                sgCfg[2].port_range_max>>)
        => /\ sgGroups = 1
           /\ sgGroupPosts = 0
           /\ sgRulePosts = <<sgCfg[2]>>

C13_Witness ==
    /\ scenario = "sg"
    /\ sgCalls = 2
    /\ sgPc = "done"
    /\ sgPath = "existing"
    /\ sgSeen = {RuleA}
    /\ sgCfg = <<RuleA, RuleB>>
    /\ sgRulePosts = <<RuleB>>
    /\ sgRules = {RuleA, RuleB}

(* C14: a createNetwork that has created the network returns it only with    *)
(* status ACTIVE.                                                            *)
C14_ReturnsActive ==
    (scenario = "ensure" /\ eOp = "network" /\ ePc = "done" /\ eResult.kind = "ok"
        /\ ePosts = 1)
        => eStatus = "ACTIVE"

(* C15: an upsert whose read finds the object without a version token ends   *)
(* normally after that single read, having sent neither a replace nor a      *)
(* create.                                                                   *)
C15_MissingTokenSkipped ==
    (scenario = "upsert" /\ uPc = "done" /\ uRead = "notoken")
        => (uWrites = 0 /\ uReads = 1 /\ uResult.kind = "ok")

(* C16: a create-if-absent operation called for a name that exists returns   *)
(* the existing object and sends no create or update request, whether or not *)
(* the object's attributes match the configuration.                          *)
C16_ExistingUntouched ==
    (scenario = "reuse" /\ xPc = "done" /\ xHad /\ xResult # "unavailable")
        => (xResult = "existing" /\ xWrites = 0)

(* C17: when the request that looks an object up fails, the operation ends   *)
(* with that failure and sends no create request.                            *)
C17_FailedLookupPropagates ==
    (scenario = "backid" /\ bLookupFailed)
        => (bPc = "done" /\ bResult = "unavailable" /\ bBackReqs = 1)

(* C18: once a remote call of a task has failed fatally or a poller has      *)
(* timed out, the run starts no further remote call, and when the process    *)
(* has exited the driver has logged the failure and the status is 1.         *)
C18_FatalStopsRun ==
    (scenario = "driver" /\ dFatal)
        => /\ dAfter = 0
           /\ dPc = "exited" => (dExit = 1 /\ dLogged)

(* C19: a createSecurityGroup call in which the request creating one of the  *)
(* rules failed with an error other than a conflict does not return          *)
(* normally: the failure reaches the caller.                                 *)
C19_RuleFailureReachesCaller ==
    (scenario = "sg" /\ sgPc = "done" /\ sgSwallowed > 0) => sgResult # "ok"

(* C20: when createFloatingIP is not running (before a call, or returned to  *)
(* its caller) none of the requests it started is still to be completed,     *)
(* and while it runs no request of an earlier call is outstanding beside     *)
(* its own.                                                                  *)
C20_AwaitedBeforeReturn ==
    scenario = "fip" =>
        /\ fPc \in {"idle", "done"} => tagTasks = {}
        /\ fPc \notin {"idle", "done"} => Cardinality(tagTasks) = 0

C22_SecondCallCreatesNothing ==
    (scenario = "reuse" /\ xKind = "volume" /\ xCalls = 2 /\ xPc = "done"
        /\ xResult # "unavailable")
        => (xCount = 1 /\ xResult = "existing" /\ xWrites = 0)

(* C23: when the read reports the object as not found, the upsert does not   *)
(* fail on that answer: it sends one write request, a create, and no         *)
(* replace.                                                                  *)
C23_NotFoundCreates ==
    (scenario = "upsert" /\ uPc = "done" /\ uRead = "absent")
        => (uWrites = 1 /\ uReq.type = "create")

C23_Witness ==
    /\ scenario = "upsert"
    /\ uPc = "done"
    /\ uRead = "absent"
    /\ uReq.type = "create"
    /\ uResult.kind = "ok"
    /\ uResult.action = "created"

(* C24: when the read found the object with a version token, the upsert      *)
(* sends exactly one write request, a replace, whatever the kind, and an     *)
(* outcome of action "updated" is reported only after a replace request.     *)
C24_ReplaceForEveryKind ==
    (scenario = "upsert" /\ uPc = "done" /\ uOp = "upsert")
        => /\ uRead = "found" => (uWrites = 1 /\ uReq.type = "replace")
           /\ (uResult.kind = "ok" /\ uResult.action = "updated")
                 => uReq.type = "replace"

(* C25: the object a lookup by name returns as the existing one bears        *)
(* exactly the name asked for.                                               *)
C25_ExactNameOnly ==
    (scenario = "match" /\ mPc = "done" /\ mGot # <<>>) => mGot = mName

(* C26: createVM never leaves two ports with the fixed IP: after a call that *)
(* created the port and failed before the server, the next call takes that   *)
(* port and creates the server on it.                                        *)
C26_PortReused ==
    scenario = "vmport" =>
        /\ Cardinality({i \in 1..Len(vPorts) : vPorts[i].ip = VmIp}) <= 1
        /\ vServer => \E i \in 1..Len(vPorts) :
                         vPorts[i].ip = VmIp /\ vPorts[i].server

C26_Witness ==
    /\ scenario = "vmport"
    /\ vOrphaned
    /\ vServer
    /\ vPc = "done"
    /\ vResult = "created"
    /\ Cardinality({i \in 1..Len(vPorts) : vPorts[i].ip = VmIp}) = 1

(* C27: deleteVM called for a server that does not exist returns normally:   *)
(* the not-found answer of the platform is not thrown to the caller.         *)
C27_DeleteAbsentSucceeds == scenario = "vmport" => vResult # "notfound"

(* C28: when createCluster calls getCluster with the name of the front       *)
(* cluster it has just created, getCluster queries the front (v1) API,       *)
(* whatever hyphens the configured name contains.                            *)
C28_FrontNameQueriesFront ==
    (scenario = "ensure" /\ eOp = "cluster" /\ ePc = "backref") => ~UseV3Api(eName)

C30_CompletedMeansRun ==
    (scenario = "driver" /\ dPc = "loop") => \A k \in 1..(dIdx - 1) : k \in dRan

(* C31: a not-found response of the client is taken as "absent" by every     *)
(* place that met it: createOrUpdateResource, deleteResource,                *)
(* waitForResource, getResource and the PostgreSQL task.                     *)
C31_SameNotFoundEverywhere ==
    (scenario = "notfound" /\ IsNotFoundResponse(nfErr))
        => \A h \in NotFoundHandlers : nfOut[h] \in {"none", "absent"}

(* C32: when createLoadBalancer has returned for a configuration that names  *)
(* a floating IP, that floating IP is associated with the VIP port of the    *)
(* load balancer, whether the call created the load balancer or found it.    *)
C32_FloatingIpAssociated ==
    (scenario = "run" /\ rPc \in {"lbWait", "done"})
        => (rFipId # 0 /\ rFips[rFipId].port)

(* C33: a listener, pool, health monitor or member is posted only when the   *)
(* step just before read the load balancer as ACTIVE, and an operation that  *)
(* posted returns only on reading the load balancer as ACTIVE again.         *)
C33_PostBetweenActiveReads ==
    scenario = "lbparts" =>
        /\ lPc = "post" => lSeen = "ACTIVE"
        /\ lRet \in {"none", "ACTIVE"}
        /\ lPc = "waitAfter" => PartSeq[lIdx] \in lParts

(* C33 witness: the wait before a post met the load balancer busy, then      *)
(* ACTIVE, and an earlier operation posted and returned                      *)
C33_Witness ==
    /\ scenario = "lbparts"
    /\ lPc = "post"
    /\ lPolls > 0
    /\ lSeen = "ACTIVE"
    /\ lRet = "ACTIVE"

(* C34: the storage server is never posted while the initialization VM       *)
(* exists, also in a run that starts with the boot volume marked configured. *)
C34_NoServerWhileInitVm ==
    scenario = "storage" => ~tEarly

(* C35: attachVolumeToServer sends the attach request only when its step     *)
(* just before read the volume as available, returns after a request only    *)
(* on reading the volume as in-use, and sends no request when its first GET  *)
(* showed the volume attached to the server.                                 *)
C35_AttachBetweenStatusReads ==
    scenario = "attach" =>
        /\ aPc = "post" => aSeen = "available"
        /\ \A v \in Volumes :
             /\ aRet[v] \in {"none", "in-use"}
             /\ (aPosts[v] > 0 /\ (aPc = "done" \/ VolumeSeq[aCur] # v))
                    => aRet[v] = "in-use"
             /\ aHadAtt[v] => aPosts[v] = 0

(* C35 witness: the call for the boot volume found it attached and sent      *)
(* nothing; the call for the data volume waited for it to be created, sent   *)
(* the attach request and returned                                           *)
C35_Witness ==
    /\ scenario = "attach"
    /\ aPc = "done"
    /\ aHadAtt["boot"] /\ aPosts["boot"] = 0
    /\ aPosts["data"] = 1
    /\ aRet["data"] = "in-use"
    /\ aAtt["data"] = {"this"}

(* C36: when createSecurityGroup has completed on a group that existed and   *)
(* none of its rule requests failed, every rule of the configuration is in   *)
(* the group, also a rule that differs from an existing one only by its      *)
(* remote prefix.                                                            *)
C36_EveryDesiredRulePresent ==
    (scenario = "sg" /\ sgPc = "done" /\ sgResult = "ok" /\ sgPath = "existing"
        /\ sgSwallowed = 0)
        => \A i \in 1..Len(sgCfg) : sgCfg[i] \in sgRules

(* C37: when createRouter has returned successfully, every requested subnet  *)
(* has an interface on the router, whether the call created the router or    *)
(* found it; a subnet answered with 'Router already has' is attached.        *)
C37_EverySubnetAttached ==
    (scenario = "router" /\ rtPc = "done" /\ rtResult = "ok")
        => /\ rtExists
           /\ \A i \in 1..Len(SubnetIds) : SubnetIds[i] \in rtAttached

(* C37 witness: the router existed; the call posted no router, sent one      *)
(* request per subnet and returned successfully                              *)
C37_Witness ==
    /\ scenario = "router"
    /\ rtPc = "done"
    /\ rtResult = "ok"
    /\ rtCalls = 1
    /\ rtPosts = 0
    /\ rtPuts = Len(SubnetIds)
    /\ rtAttached = {"subnet-a", "subnet-b", "subnet-c"}

(* C38: the security group task submits a rule that names a remote group     *)
(* only in its second pass, when the creation of every configured group has  *)
(* been attempted; the reference then resolves if the group it names exists. *)
C38_ReferencesAfterFirstPass ==
    scenario = "sgtask" =>
        \A e \in gLog :
            e.remote # "none" =>
                /\ e.pass = 2
                /\ e.attempted = GroupNames
                /\ e.remote \in e.existing => e.resolved

(* C38 witness: in a project that had no group, the rule of the first group  *)
(* that names the second was submitted and resolved                          *)
C38_Witness ==
    /\ scenario = "sgtask"
    /\ gPass = 3
    /\ \E e \in gLog :
         /\ e.id = "web-from-db"
         /\ e.resolved
         /\ e.attempted = GroupNames
    /\ \E e \in gLog : e.id = "web-ssh" /\ e.existing = {"web"}

(* C39: a create request of createOrUpdateResource carries no version        *)
(* token, also when the body was used before to replace an object that has   *)
(* since been deleted.                                                       *)
C39_CreateCarriesNoToken ==
    (scenario = "upsert" /\ uOp = "upsert" /\ uReq.type = "create") => uReq.token = 0
====
